---- MODULE Spec2Model ----
(***************************************************************************)
(* Pitch-pulse: the SEC fact normalizer (edge function fetch-sec-data,     *)
(* normalizeFinancials) and the credit analyzer (hook useCreditAnalysis),  *)
(* the edge function's cache and retrying fetch, and the approval          *)
(* workflow, version history and roles behind row-level security.          *)
(* JavaScript values are modelled as tagged records: null, undefined and   *)
(* numbers, every number an exact rational n/d.                            *)
(***************************************************************************)
EXTENDS Integers, Sequences, FiniteSets, TLC

VARIABLES
    pc,               \* position of the modelled call
    facts,            \* SECCompanyFacts handed to normalizeFinancials
    fiscalYearStart,  \* requested range, validated by requestSchema
    fiscalYearEnd,
    normalizedData,   \* value returned by normalizeFinancials
    data,             \* NormalizedFinancials | null handed to useCreditAnalysis
    analysis,         \* value returned by useCreditAnalysis
    calls,            \* arguments of successive calculateRatioStatus calls
    statuses,         \* the values those calls returned, in call order
    now,              \* wall clock of the edge function, in hours
    run_data_cache,   \* rows of table run_data_cache
    responses,        \* responses the edge function has sent, oldest first
    secRequests,      \* requests that went out to the SEC so far
    fetchCall,        \* arguments retries and delay of the fetchWithRetry call
    fetchOutcomes,    \* what the network does to the successive fetch calls
    attempt,          \* loop index i of fetchWithRetry
    waited,           \* the waits fetchWithRetry has made, in order
    returned,         \* how the fetchWithRetry call ended
    runs,             \* rows of table runs
    run_versions,     \* rows of table run_versions
    user_roles,       \* rows of table user_roles
    statements,       \* statements issued against user_roles, with their effect
    sessions          \* browser sessions: user, view of the run, mutation in flight

analysisVars == <<pc, facts, fiscalYearStart, fiscalYearEnd, normalizedData, data,
                  analysis, calls, statuses>>
cacheVars == <<now, run_data_cache, responses, secRequests>>
retryVars == <<fetchCall, fetchOutcomes, attempt, waited, returned>>
workflowVars == <<runs, run_versions, user_roles, statements, sessions>>
backendVars == <<cacheVars, retryVars, workflowVars>>

vars == <<analysisVars, backendVars>>

----------------------------------------------------------------------------
(* JavaScript values *)

Null == [t |-> "null"]
Undefined == [t |-> "undefined"]
\* a number: the exact rational n/d (d = 0 stands for Infinity or NaN)
Rat(n, d) == [t |-> "num", n |-> n, d |-> d]
Num(v) == Rat(v, 1)
\* a string that may also be null: its characters in order
Str(chars) == [t |-> "str", chars |-> chars]

----------------------------------------------------------------------------
(* The parts of the system that take no part in a given specification *)

NotRun == [t |-> "not-run"]

\* no request has reached the edge function
IdleCache ==
    /\ now = 0
    /\ run_data_cache = {}
    /\ responses = <<>>
    /\ secRequests = 0

\* no fetchWithRetry call is under way
IdleRetry ==
    /\ fetchCall = NotRun
    /\ fetchOutcomes = <<>>
    /\ attempt = 0
    /\ waited = <<>>
    /\ returned = NotRun

\* no run, version, role or session exists
IdleWorkflow ==
    /\ runs = {}
    /\ run_versions = {}
    /\ user_roles = {}
    /\ statements = <<>>
    /\ sessions = <<>>

IdleBackend == IdleCache /\ IdleRetry /\ IdleWorkflow

----------------------------------------------------------------------------
(* Bounds of the model *)

MaxConcepts == 2   \* concepts in facts.facts['us-gaap']
MaxTotalObs == 2   \* observations in the whole raw fact set
MaxSpan == 1       \* fiscalYearEnd - fiscalYearStart
FirstYear == 2020  \* the fiscalYearStart that is tried
MaxYears == 2      \* fiscal-year records handed to the analyzer

----------------------------------------------------------------------------
(* Normalizer: tables *)

METRIC_MAPPING ==
    [c \in {"Revenues", "RevenueFromContractWithCustomerExcludingAssessedTax",
            "SalesRevenueNet", "NetIncomeLoss", "Assets", "Liabilities",
            "StockholdersEquity",
            "StockholdersEquityIncludingPortionAttributableToNoncontrollingInterest",
            "NetCashProvidedByUsedInOperatingActivities", "GrossProfit",
            "OperatingIncomeLoss", "LongTermDebt", "LongTermDebtNoncurrent",
            "AssetsCurrent", "LiabilitiesCurrent"} |->
        CASE c \in {"Revenues", "RevenueFromContractWithCustomerExcludingAssessedTax",
                    "SalesRevenueNet"} -> "revenue"
          [] c = "NetIncomeLoss" -> "netIncome"
          [] c = "Assets" -> "totalAssets"
          [] c = "Liabilities" -> "totalLiabilities"
          [] c \in {"StockholdersEquity",
                    "StockholdersEquityIncludingPortionAttributableToNoncontrollingInterest"}
               -> "stockholdersEquity"
          [] c = "NetCashProvidedByUsedInOperatingActivities" -> "operatingCashFlow"
          [] c = "GrossProfit" -> "grossProfit"
          [] c = "OperatingIncomeLoss" -> "operatingIncome"
          [] c \in {"LongTermDebt", "LongTermDebtNoncurrent"} -> "longTermDebt"
          [] c = "AssetsCurrent" -> "currentAssets"
          [] c = "LiabilitiesCurrent" -> "currentLiabilities"]

\* Object.keys(METRIC_MAPPING): the insertion order of the table
METRIC_MAPPING_KEYS ==
    <<"Revenues", "RevenueFromContractWithCustomerExcludingAssessedTax",
      "SalesRevenueNet", "NetIncomeLoss", "Assets", "Liabilities",
      "StockholdersEquity",
      "StockholdersEquityIncludingPortionAttributableToNoncontrollingInterest",
      "NetCashProvidedByUsedInOperatingActivities", "GrossProfit",
      "OperatingIncomeLoss", "LongTermDebt", "LongTermDebtNoncurrent",
      "AssetsCurrent", "LiabilitiesCurrent">>

\* the client-side type FiscalYearData (types/financials): year + 13 fields
FiscalYearData ==
    {"year", "revenue", "netIncome", "totalAssets", "totalLiabilities",
     "stockholdersEquity", "operatingCashFlow", "ebitda", "grossProfit",
     "operatingIncome", "longTermDebt", "currentAssets", "currentLiabilities",
     "cashAndEquivalents"}

----------------------------------------------------------------------------
(* Normalizer: normalizeFinancials *)

\* v.form === '10-K' && v.fy >= fiscalYearStart && v.fy <= fiscalYearEnd
IsEligible(v, start, end) ==
    v.form = "10-K" /\ v.fy >= start /\ v.fy <= end

\* .map(v => ({ end, val, fy, form, filed }))
MetricData(v) ==
    [end |-> v.end, val |-> v.val, fy |-> v.fy, form |-> v.form, filed |-> v.filed]

\* units['USD'] || []
UsdValues(units) == IF "USD" \in DOMAIN units THEN units["USD"] ELSE <<>>

\* FilterMap with the year test of the filter left out
FilterMapAnyYear(usdValues, start, end) ==
    LET keep == SelectSeq(usdValues, LAMBDA v : v.form = "10-K")
    IN  [i \in 1..Len(keep) |-> MetricData(keep[i])]

\* usdValues.filter(...).map(...)
FilterMap(usdValues, start, end) ==
    LET keep == SelectSeq(usdValues, LAMBDA v : IsEligible(v, start, end))
    IN  [i \in 1..Len(keep) |-> MetricData(keep[i])]

\* if (usdValues.length > 0) rawMetrics[concept] = ...
StoreRawMetric(rawMetrics, concept, usdValues, start, end) ==
    IF Len(usdValues) > 0
    THEN [k \in DOMAIN rawMetrics \cup {concept} |->
            IF k = concept THEN FilterMap(usdValues, start, end) ELSE rawMetrics[k]]
    ELSE rawMetrics

\* yearData: a Map, modelled as the sequence of its values in insertion order
MapHas(yearData, y) == \E i \in 1..Len(yearData) : yearData[i].year = y
MapGet(yearData, y) ==
    yearData[CHOOSE i \in 1..Len(yearData) : yearData[i].year = y]
MapSet(yearData, y, rec) ==
    IF MapHas(yearData, y)
    THEN [i \in 1..Len(yearData) |-> IF yearData[i].year = y THEN rec ELSE yearData[i]]
    ELSE Append(yearData, rec)

\* InitYears with the loop test year < fiscalYearEnd
RECURSIVE InitYearsExclusive(_, _, _)
InitYearsExclusive(yearData, year, end) ==
    IF year < end
    THEN InitYearsExclusive(MapSet(yearData, year, [year |-> year]), year + 1, end)
    ELSE yearData

\* for (let year = fiscalYearStart; year <= fiscalYearEnd; year++) yearData.set(year, { year })
RECURSIVE InitYears(_, _, _)
InitYears(yearData, year, end) ==
    IF year <= end
    THEN InitYears(MapSet(yearData, year, [year |-> year]), year + 1, end)
    ELSE yearData

\* MapValue without the test existing[normalizedName] === undefined: the last match wins
MapValueLastWins(yearData, normalizedName, value, start, end) ==
    IF IsEligible(value, start, end)
    THEN LET existing == IF MapHas(yearData, value.fy)
                         THEN MapGet(yearData, value.fy)
                         ELSE [year |-> value.fy]
         IN  MapSet(yearData, value.fy,
                    [k \in DOMAIN existing \cup {normalizedName} |->
                        IF k = normalizedName THEN value.val ELSE existing[k]])
    ELSE yearData

\* the body of the loop over usdValues, for one value
MapValue(yearData, normalizedName, value, start, end) ==
    IF IsEligible(value, start, end)
    THEN LET existing == IF MapHas(yearData, value.fy)
                         THEN MapGet(yearData, value.fy)
                         ELSE [year |-> value.fy]
         IN  IF normalizedName \notin DOMAIN existing
             THEN MapSet(yearData, value.fy, (normalizedName :> value.val) @@ existing)
             ELSE yearData
    ELSE yearData

RECURSIVE MapValues(_, _, _, _, _, _)
MapValues(yearData, normalizedName, usdValues, i, start, end) ==
    IF i > Len(usdValues) THEN yearData
    ELSE MapValues(MapValue(yearData, normalizedName, usdValues[i], start, end),
                   normalizedName, usdValues, i + 1, start, end)

\* if (normalizedName) { for (const value of usdValues) ... }
MapConcept(yearData, concept, usdValues, start, end) ==
    IF concept \in DOMAIN METRIC_MAPPING
    THEN MapValues(yearData, METRIC_MAPPING[concept], usdValues, 1, start, end)
    ELSE yearData

\* for (const [concept, data] of Object.entries(usGaap)): st = <<rawMetrics, yearData>>
RECURSIVE ProcessEntries(_, _, _, _, _)
ProcessEntries(st, entries, i, start, end) ==
    IF i > Len(entries) THEN st
    ELSE LET usdValues == UsdValues(entries[i].units)
         IN  ProcessEntries(
                 <<StoreRawMetric(st[1], entries[i].concept, usdValues, start, end),
                   MapConcept(st[2], entries[i].concept, usdValues, start, end)>>,
                 entries, i + 1, start, end)

\* data.<field> ?? null
OrNull(rec, f) == IF f \in DOMAIN rec THEN Num(rec[f]) ELSE Null

\* .map(data => ({ year: ..., revenue: data.revenue ?? null, ... }))
ToFiscalYear(rec) ==
    [year |-> rec.year,
     revenue |-> OrNull(rec, "revenue"),
     netIncome |-> OrNull(rec, "netIncome"),
     totalAssets |-> OrNull(rec, "totalAssets"),
     totalLiabilities |-> OrNull(rec, "totalLiabilities"),
     stockholdersEquity |-> OrNull(rec, "stockholdersEquity"),
     operatingCashFlow |-> OrNull(rec, "operatingCashFlow"),
     ebitda |-> Null,
     grossProfit |-> OrNull(rec, "grossProfit"),
     operatingIncome |-> OrNull(rec, "operatingIncome"),
     longTermDebt |-> OrNull(rec, "longTermDebt"),
     currentAssets |-> OrNull(rec, "currentAssets"),
     currentLiabilities |-> OrNull(rec, "currentLiabilities")]

\* Array.from(yearData.values()).sort((a, b) => a.year - b.year).map(...)
SortedFiscalYears(yearData) ==
    LET sorted == SortSeq(yearData, LAMBDA a, b : a.year < b.year)
    IN  [i \in 1..Len(sorted) |-> ToFiscalYear(sorted[i])]

\* facts.facts['us-gaap'] || {}
UsGaap(f) == IF "us-gaap" \in DOMAIN f.facts THEN f.facts["us-gaap"] ELSE <<>>

\* String(facts.cik).padStart(10, '0'), on the sequence of decimal digits
RECURSIVE Digits(_)
Digits(n) == IF n < 10 THEN <<n>> ELSE Append(Digits(n \div 10), n % 10)

PadStart10(s) == [i \in 1..(10 - Len(s)) |-> 0] \o s

\* ticker.toUpperCase(), on the sequence of characters
UpperChar(ch) ==
    CASE ch = "a" -> "A" [] ch = "p" -> "P" [] ch = "l" -> "L" [] OTHER -> ch

ToUpperCase(s) == [i \in 1..Len(s) |-> UpperChar(s[i])]

normalizeFinancials(f, tick, sic, start, end) ==
    LET st == ProcessEntries(<<<<>>, InitYears(<<>>, start, end)>>,
                             UsGaap(f), 1, start, end)
    IN  [cik |-> PadStart10(Digits(f.cik)),
         entityName |-> f.entityName,
         ticker |-> ToUpperCase(tick),
         sicCode |-> sic,
         fiscalYears |-> SortedFiscalYears(st[2]),
         rawMetrics |-> st[1]]

----------------------------------------------------------------------------
(* JavaScript arithmetic on numbers *)

Truthy(x) == x.t = "num" /\ x.n # 0

\* keeps the denominator non-negative
Norm(n, d) == IF d < 0 THEN Rat(0 - n, 0 - d) ELSE Rat(n, d)

Sub(a, b) == Norm(a.n * b.d - b.n * a.d, a.d * b.d)
Add(a, b) == Norm(a.n * b.d + b.n * a.d, a.d * b.d)
Mul(a, b) == Norm(a.n * b.n, a.d * b.d)
Div(a, b) == Norm(a.n * b.d, a.d * b.n)

Lt(a, b) == a.n * b.d < b.n * a.d
Le(a, b) == a.n * b.d <= b.n * a.d
Gt(a, b) == Lt(b, a)
Ge(a, b) == Le(b, a)
RatEq(a, b) == a.t = "num" /\ b.t = "num" /\ a.n * b.d = b.n * a.d

MathMin(a, b) == IF Lt(b, a) THEN b ELSE a
MathMax(a, b) == IF Gt(b, a) THEN b ELSE a

----------------------------------------------------------------------------
(* Analyzer: useCreditAnalysis *)

Benchmark(cr, de, gm, nm) ==
    [currentRatio |-> cr, debtToEquity |-> de, grossMargin |-> gm, netMargin |-> nm]

DefaultKey == <<"d", "e", "f", "a", "u", "l", "t">>

INDUSTRY_BENCHMARKS ==
    (<<"7", "3">> :> Benchmark(Rat(18, 10), Rat(5, 10), Rat(45, 100), Rat(12, 100))) @@
    (<<"3", "5">> :> Benchmark(Rat(20, 10), Rat(6, 10), Rat(35, 100), Rat(8, 100))) @@
    (<<"3", "6">> :> Benchmark(Rat(22, 10), Rat(4, 10), Rat(42, 100), Rat(10, 100))) @@
    (<<"2", "8">> :> Benchmark(Rat(15, 10), Rat(7, 10), Rat(55, 100), Rat(15, 100))) @@
    (<<"6", "0">> :> Benchmark(Rat(12, 10), Rat(80, 10), Rat(70, 100), Rat(20, 100))) @@
    (<<"6", "2">> :> Benchmark(Rat(15, 10), Rat(30, 10), Rat(65, 100), Rat(18, 100))) @@
    (<<"2", "0">> :> Benchmark(Rat(14, 10), Rat(8, 10), Rat(28, 100), Rat(5, 100))) @@
    (<<"4", "9">> :> Benchmark(Rat(9, 10), Rat(12, 10), Rat(40, 100), Rat(10, 100))) @@
    (DefaultKey :> Benchmark(Rat(15, 10), Rat(10, 10), Rat(35, 100), Rat(8, 100)))

\* sicCode.substring(0, 2)
Substring02(s) == SubSeq(s, 1, IF Len(s) < 2 THEN Len(s) ELSE 2)

\* getBenchmarks looking the whole code up instead of its two-character prefix
getBenchmarksWholeCode(sicCode) ==
    IF sicCode = Null \/ sicCode.chars = <<>> THEN INDUSTRY_BENCHMARKS[DefaultKey]
    ELSE IF sicCode.chars \in DOMAIN INDUSTRY_BENCHMARKS
         THEN INDUSTRY_BENCHMARKS[sicCode.chars]
         ELSE INDUSTRY_BENCHMARKS[DefaultKey]

\* a sicCode is null or a string; !sicCode holds of null and ''
getBenchmarks(sicCode) ==
    IF sicCode = Null \/ sicCode.chars = <<>> THEN INDUSTRY_BENCHMARKS[DefaultKey]
    ELSE LET prefix == Substring02(sicCode.chars)
         IN  IF prefix \in DOMAIN INDUSTRY_BENCHMARKS
             THEN INDUSTRY_BENCHMARKS[prefix]
             ELSE INDUSTRY_BENCHMARKS[DefaultKey]

\* [...data.fiscalYears].sort((a, b) => b.year - a.year)
SortedYearsDesc(d) == SortSeq(d.fiscalYears, LAMBDA a, b : a.year > b.year)

getLatestYearData(d) ==
    LET sortedYears == SortedYearsDesc(d)
    IN  IF Len(sortedYears) = 0 THEN Null
        ELSE [t |-> "year", year |-> sortedYears[1].year, data |-> sortedYears[1]]

getPreviousYearData(d) ==
    LET sortedYears == SortedYearsDesc(d)
    IN  IF Len(sortedYears) < 2 THEN Null
        ELSE [t |-> "year", year |-> sortedYears[2].year, data |-> sortedYears[2]]

\* calculateRatioStatus classifying a missing value as a failure
calculateRatioStatusNullCritical(value, benchmark, higherIsBetter, good, warning) ==
    IF value = Null THEN "critical"
    ELSE IF higherIsBetter
         THEN IF Ge(value, Mul(benchmark, good)) THEN "good"
              ELSE IF Ge(value, Mul(benchmark, warning)) THEN "warning"
              ELSE "critical"
         ELSE IF Le(value, Mul(benchmark, good)) THEN "good"
              ELSE IF Le(value, Mul(benchmark, warning)) THEN "warning"
              ELSE "critical"

\* calculateRatioStatus with strict comparisons: a value on a threshold falls
\* into the worse class
calculateRatioStatusStrict(value, benchmark, higherIsBetter, good, warning) ==
    IF value = Null THEN "warning"
    ELSE IF higherIsBetter
         THEN IF Gt(value, Mul(benchmark, good)) THEN "good"
              ELSE IF Gt(value, Mul(benchmark, warning)) THEN "warning"
              ELSE "critical"
         ELSE IF Lt(value, Mul(benchmark, good)) THEN "good"
              ELSE IF Lt(value, Mul(benchmark, warning)) THEN "warning"
              ELSE "critical"

\* calculateRatioStatus whose lower-is-better branch does not invert the
\* comparison
calculateRatioStatusSameDirection(value, benchmark, higherIsBetter, good, warning) ==
    IF value = Null THEN "warning"
    ELSE IF Ge(value, Mul(benchmark, good)) THEN "good"
    ELSE IF Ge(value, Mul(benchmark, warning)) THEN "warning"
    ELSE "critical"

calculateRatioStatus(value, benchmark, higherIsBetter, good, warning) ==
    IF value = Null THEN "warning"
    ELSE IF higherIsBetter
         THEN IF Ge(value, Mul(benchmark, good)) THEN "good"
              ELSE IF Ge(value, Mul(benchmark, warning)) THEN "warning"
              ELSE "critical"
         ELSE IF Le(value, Mul(benchmark, good)) THEN "good"
              ELSE IF Le(value, Mul(benchmark, warning)) THEN "warning"
              ELSE "critical"

\* a destructured property: undefined when the record has no such key
Field(rec, f) == IF f \in DOMAIN rec THEN rec[f] ELSE Undefined

\* totalAssets && totalLiabilities ? totalAssets - totalLiabilities : null
Equity(latest) ==
    LET totalAssets == Field(latest, "totalAssets")
        totalLiabilities == Field(latest, "totalLiabilities")
    IN  IF Truthy(totalAssets) /\ Truthy(totalLiabilities)
        THEN Sub(totalAssets, totalLiabilities) ELSE Null

\* CurrentRatio guarded by currentAssets && currentLiabilities !== null
CurrentRatioZeroDenominator(latest) ==
    LET currentAssets == Field(latest, "currentAssets")
        currentLiabilities == Field(latest, "currentLiabilities")
    IN  IF Truthy(currentAssets) /\ currentLiabilities.t = "num"
        THEN Div(currentAssets, currentLiabilities) ELSE Null

\* currentAssets && currentLiabilities ? currentAssets / currentLiabilities : null
CurrentRatio(latest) ==
    LET currentAssets == Field(latest, "currentAssets")
        currentLiabilities == Field(latest, "currentLiabilities")
    IN  IF Truthy(currentAssets) /\ Truthy(currentLiabilities)
        THEN Div(currentAssets, currentLiabilities) ELSE Null

\* longTermDebt && equity && equity > 0 ? longTermDebt / equity : null
DebtToEquity(latest) ==
    LET longTermDebt == Field(latest, "longTermDebt")
        equity == Equity(latest)
    IN  IF Truthy(longTermDebt) /\ Truthy(equity) /\ Gt(equity, Num(0))
        THEN Div(longTermDebt, equity) ELSE Null

\* revenue && netIncome ? netIncome / revenue : null
NetMargin(latest) ==
    LET revenue == Field(latest, "revenue")
        netIncome == Field(latest, "netIncome")
    IN  IF Truthy(revenue) /\ Truthy(netIncome) THEN Div(netIncome, revenue) ELSE Null

\* totalAssets && netIncome ? netIncome / totalAssets : null
ReturnOnAssets(latest) ==
    LET totalAssets == Field(latest, "totalAssets")
        netIncome == Field(latest, "netIncome")
    IN  IF Truthy(totalAssets) /\ Truthy(netIncome)
        THEN Div(netIncome, totalAssets) ELSE Null

\* equity && netIncome && equity > 0 ? netIncome / equity : null
ReturnOnEquity(latest) ==
    LET equity == Equity(latest)
        netIncome == Field(latest, "netIncome")
    IN  IF Truthy(equity) /\ Truthy(netIncome) /\ Gt(equity, Num(0))
        THEN Div(netIncome, equity) ELSE Null

\* QuickRatio that counts a missing cash balance as 0 instead of giving up
QuickRatioCashOptional(latest) ==
    LET currentAssets == Field(latest, "currentAssets")
        currentLiabilities == Field(latest, "currentLiabilities")
        cashAndEquivalents == IF Truthy(Field(latest, "cashAndEquivalents"))
                              THEN Field(latest, "cashAndEquivalents") ELSE Num(0)
    IN  IF Truthy(currentAssets) /\ Truthy(currentLiabilities)
        THEN Div(Add(cashAndEquivalents,
                     Mul(Sub(currentAssets, cashAndEquivalents), Rat(5, 10))),
                 currentLiabilities)
        ELSE Null

\* currentAssets && currentLiabilities && cashAndEquivalents
\*   ? (cashAndEquivalents + (currentAssets - cashAndEquivalents) * 0.5) / currentLiabilities
\*   : null
QuickRatio(latest) ==
    LET currentAssets == Field(latest, "currentAssets")
        currentLiabilities == Field(latest, "currentLiabilities")
        cashAndEquivalents == Field(latest, "cashAndEquivalents")
    IN  IF Truthy(currentAssets) /\ Truthy(currentLiabilities) /\ Truthy(cashAndEquivalents)
        THEN Div(Add(cashAndEquivalents,
                     Mul(Sub(currentAssets, cashAndEquivalents), Rat(5, 10))),
                 currentLiabilities)
        ELSE Null

CreditRatio(name, value, benchmark, higherIsBetter, good, warning) ==
    [name |-> name, value |-> value, benchmark |-> benchmark,
     status |-> calculateRatioStatus(value, benchmark, higherIsBetter, good, warning)]

\* the six ratios.push(...) in order
Ratios(latest, benchmarks) ==
    <<CreditRatio("Current Ratio", CurrentRatio(latest), benchmarks.currentRatio,
                  TRUE, Rat(9, 10), Rat(6, 10)),
      CreditRatio("Debt-to-Equity", DebtToEquity(latest), benchmarks.debtToEquity,
                  FALSE, Rat(10, 10), Rat(15, 10)),
      CreditRatio("Net Profit Margin", NetMargin(latest), benchmarks.netMargin,
                  TRUE, Rat(8, 10), Rat(5, 10)),
      CreditRatio("Return on Assets", ReturnOnAssets(latest), Rat(5, 100),
                  TRUE, Rat(10, 10), Rat(6, 10)),
      CreditRatio("Return on Equity", ReturnOnEquity(latest), Rat(15, 100),
                  TRUE, Rat(9, 10), Rat(5, 10)),
      CreditRatio("Quick Ratio", QuickRatio(latest), Rat(10, 10),
                  TRUE, Rat(9, 10), Rat(6, 10))>>

\* x.toFixed(k) inside a template string: text, or a TypeError when x is no number
ToFixed(x) == IF x.t = "num" THEN "text" ELSE "TypeError"

RiskFlag(id, severity, category, description) ==
    [id |-> id, severity |-> severity, category |-> category, description |-> description]

\* LiquidityFlags without currentRatio !== null: null < 1.0 holds in JavaScript
LiquidityFlagsNoNullTest(currentRatio) ==
    IF currentRatio = Null \/ Lt(currentRatio, Num(1))
    THEN <<RiskFlag("low-current-ratio",
                    IF currentRatio = Null \/ Lt(currentRatio, Rat(5, 10))
                    THEN "critical" ELSE "high",
                    "Liquidity", ToFixed(currentRatio))>>
    ELSE <<>>

\* LiquidityFlags with severity critical up to and including 0.5
LiquidityFlagsCriticalAtHalf(currentRatio) ==
    IF currentRatio # Null /\ Lt(currentRatio, Num(1))
    THEN <<RiskFlag("low-current-ratio",
                    IF Le(currentRatio, Rat(5, 10)) THEN "critical" ELSE "high",
                    "Liquidity", ToFixed(currentRatio))>>
    ELSE <<>>

\* if (currentRatio !== null && currentRatio < 1.0)
LiquidityFlags(currentRatio) ==
    IF currentRatio # Null /\ Lt(currentRatio, Num(1))
    THEN <<RiskFlag("low-current-ratio",
                    IF Lt(currentRatio, Rat(5, 10)) THEN "critical" ELSE "high",
                    "Liquidity", ToFixed(currentRatio))>>
    ELSE <<>>

\* if (debtToEquity !== null && debtToEquity > benchmarks.debtToEquity * 1.5)
LeverageFlags(debtToEquity, benchmarks) ==
    IF debtToEquity # Null /\ Gt(debtToEquity, Mul(benchmarks.debtToEquity, Rat(15, 10)))
    THEN <<RiskFlag("high-leverage",
                    IF Gt(debtToEquity, Mul(benchmarks.debtToEquity, Rat(25, 10)))
                    THEN "critical" ELSE "high",
                    "Leverage", ToFixed(debtToEquity))>>
    ELSE <<>>

\* ProfitabilityFlags with two independent ifs instead of if / else if
ProfitabilityFlagsBoth(netMargin, benchmarks) ==
    (IF netMargin # Null /\ Lt(netMargin, Num(0))
     THEN <<RiskFlag("negative-margin", "critical", "Profitability", ToFixed(netMargin))>>
     ELSE <<>>)
    \o (IF netMargin # Null /\ Lt(netMargin, Mul(benchmarks.netMargin, Rat(5, 10)))
        THEN <<RiskFlag("low-margin", "medium", "Profitability", ToFixed(netMargin))>>
        ELSE <<>>)

\* if (netMargin !== null && netMargin < 0) ... else if (netMargin !== null && ...)
ProfitabilityFlags(netMargin, benchmarks) ==
    IF netMargin # Null /\ Lt(netMargin, Num(0))
    THEN <<RiskFlag("negative-margin", "critical", "Profitability", ToFixed(netMargin))>>
    ELSE IF netMargin # Null /\ Lt(netMargin, Mul(benchmarks.netMargin, Rat(5, 10)))
         THEN <<RiskFlag("low-margin", "medium", "Profitability", ToFixed(netMargin))>>
         ELSE <<>>

\* if (previous && revenue && previous.data.revenue)
GrowthFlags(latest, previous) ==
    LET revenue == Field(latest, "revenue")
    IN  IF previous # Null /\ Truthy(revenue) /\ Truthy(Field(previous.data, "revenue"))
        THEN LET prev == Field(previous.data, "revenue")
                 revenueGrowth == Div(Sub(revenue, prev), prev)
             IN  IF Lt(revenueGrowth, Rat(-1, 10))
                 THEN <<RiskFlag("revenue-decline",
                                 IF Lt(revenueGrowth, Rat(-2, 10)) THEN "critical" ELSE "high",
                                 "Growth", ToFixed(revenueGrowth))>>
                 ELSE <<>>
        ELSE <<>>

\* if (cashAndEquivalents && totalAssets)
CashFlags(latest) ==
    LET cashAndEquivalents == Field(latest, "cashAndEquivalents")
        totalAssets == Field(latest, "totalAssets")
    IN  IF Truthy(cashAndEquivalents) /\ Truthy(totalAssets)
        THEN LET cashRatio == Div(cashAndEquivalents, totalAssets)
             IN  IF Lt(cashRatio, Rat(2, 100))
                 THEN <<RiskFlag("low-cash", "high", "Liquidity", ToFixed(cashRatio))>>
                 ELSE <<>>
        ELSE <<>>

\* if (!revenue || !totalAssets || !totalLiabilities)
DataQualityFlags(latest) ==
    IF \/ ~Truthy(Field(latest, "revenue"))
       \/ ~Truthy(Field(latest, "totalAssets"))
       \/ ~Truthy(Field(latest, "totalLiabilities"))
    THEN <<RiskFlag("incomplete-data", "medium", "Data Quality", "text")>>
    ELSE <<>>

\* the riskFlags.push(...) in order
RiskFlags(latest, previous, benchmarks) ==
    LiquidityFlags(CurrentRatio(latest))
    \o LeverageFlags(DebtToEquity(latest), benchmarks)
    \o ProfitabilityFlags(NetMargin(latest), benchmarks)
    \o GrowthFlags(latest, previous)
    \o CashFlags(latest)
    \o DataQualityFlags(latest)

\* Clamp1To99 without the upper bound: Math.max(1, x)
ClampAtLeast1(x) == MathMax(Num(1), x)

\* Math.min(99, Math.max(1, x))
Clamp1To99(x) == MathMin(Num(99), MathMax(Num(1), x))

PeerComparison(metric, company, peerAverage, percentile, status) ==
    [metric |-> metric, company |-> company, peerAverage |-> peerAverage,
     percentile |-> percentile, status |-> status]

\* percentile: v ? clamp((v / benchmark) * 50) : null; status by truthiness of v
HigherIsBetterPeer(metric, v, benchmark) ==
    PeerComparison(metric, v, benchmark,
        IF Truthy(v) THEN Clamp1To99(Mul(Div(v, benchmark), Num(50))) ELSE Null,
        IF Truthy(v) /\ Ge(v, benchmark) THEN "above"
        ELSE IF Truthy(v) THEN "below" ELSE "at")

\* percentile: v !== null ? clamp(100 - (v / benchmark) * 50) : null
DebtToEquityPeer(v, benchmark) ==
    PeerComparison("Debt-to-Equity", v, benchmark,
        IF v # Null THEN Clamp1To99(Sub(Num(100), Mul(Div(v, benchmark), Num(50))))
        ELSE Null,
        IF v # Null /\ Le(v, benchmark) THEN "above"
        ELSE IF v # Null THEN "below" ELSE "at")

PeerComparisons(latest, benchmarks) ==
    <<HigherIsBetterPeer("Current Ratio", CurrentRatio(latest), benchmarks.currentRatio),
      DebtToEquityPeer(DebtToEquity(latest), benchmarks.debtToEquity),
      HigherIsBetterPeer("Net Margin", NetMargin(latest), benchmarks.netMargin),
      HigherIsBetterPeer("Return on Assets", ReturnOnAssets(latest), Rat(5, 100))>>

\* ratios.map(r => ...) : good 100, warning 60, otherwise 20
RatioScore(status) ==
    IF status = "good" THEN 100 ELSE IF status = "warning" THEN 60 ELSE 20

\* the reducer of riskPenalties
Penalty(severity) ==
    IF severity = "critical" THEN 15
    ELSE IF severity = "high" THEN 10
    ELSE IF severity = "medium" THEN 5
    ELSE 2

RECURSIVE SumScores(_, _)
SumScores(ratios, n) ==
    IF n = 0 THEN 0 ELSE SumScores(ratios, n - 1) + RatioScore(ratios[n].status)

RECURSIVE SumPenalties(_, _)
SumPenalties(flags, n) ==
    IF n = 0 THEN 0 ELSE SumPenalties(flags, n - 1) + Penalty(flags[n].severity)

\* OverallScore without the floor: Math.min(100, averageRatioScore - riskPenalties)
OverallScoreNoFloor(ratios, flags) ==
    LET averageRatioScore == Rat(SumScores(ratios, Len(ratios)), Len(ratios))
        riskPenalties == Num(SumPenalties(flags, Len(flags)))
    IN  MathMin(Num(100), Sub(averageRatioScore, riskPenalties))

\* Math.max(0, Math.min(100, averageRatioScore - riskPenalties))
OverallScore(ratios, flags) ==
    LET averageRatioScore == Rat(SumScores(ratios, Len(ratios)), Len(ratios))
        riskPenalties == Num(SumPenalties(flags, Len(flags)))
    IN  MathMax(Num(0), MathMin(Num(100), Sub(averageRatioScore, riskPenalties)))

\* ScoreCategory with strict thresholds: a score on a threshold drops a category
ScoreCategoryStrict(overallScore) ==
    IF Gt(overallScore, Num(80)) THEN "excellent"
    ELSE IF Gt(overallScore, Num(65)) THEN "good"
    ELSE IF Gt(overallScore, Num(50)) THEN "fair"
    ELSE IF Gt(overallScore, Num(35)) THEN "poor"
    ELSE "critical"

ScoreCategory(overallScore) ==
    IF Ge(overallScore, Num(80)) THEN "excellent"
    ELSE IF Ge(overallScore, Num(65)) THEN "good"
    ELSE IF Ge(overallScore, Num(50)) THEN "fair"
    ELSE IF Ge(overallScore, Num(35)) THEN "poor"
    ELSE "critical"

\* the outcome of a call that raised a TypeError
Thrown == [t |-> "throw"]

useCreditAnalysis(d) ==
    IF d = Null THEN Null
    ELSE LET latest == getLatestYearData(d)
             previous == getPreviousYearData(d)
         IN  IF latest = Null THEN Null
             ELSE LET benchmarks == getBenchmarks(d.sicCode)
                      ratios == Ratios(latest.data, benchmarks)
                      riskFlags == RiskFlags(latest.data, previous, benchmarks)
                      overallScore == OverallScore(ratios, riskFlags)
                  IN  IF \E i \in 1..Len(riskFlags) : riskFlags[i].description = "TypeError"
                      THEN Thrown
                      ELSE [t |-> "analysis",
                            overallScore |-> overallScore,
                            scoreCategory |-> ScoreCategory(overallScore),
                            ratios |-> ratios,
                            riskFlags |-> riskFlags,
                            peerComparisons |-> PeerComparisons(latest.data, benchmarks)]

----------------------------------------------------------------------------
(* Inputs of the normalizer *)

Vals == {0, 7}
ConceptsTried == {"Revenues", "SalesRevenueNet", "Goodwill"}

\* one entry of units.USD; accn stands for the fields the normalizer drops
Observation(val, fy, form) ==
    [end |-> "2020-12-31", val |-> val, fy |-> fy, form |-> form,
     filed |-> "2021-02-01", accn |-> "0001"]

\* annual observations of the first and the last requested year, and the three
\* near misses: a quarterly form, the year before the range, the year after it
Observations(start, end) ==
    {Observation(v, y, "10-K") : v \in Vals, y \in {start, end}}
    \cup {Observation(7, start, "10-Q"),
          Observation(7, start - 1, "10-K"),
          Observation(7, end + 1, "10-K")}

\* the concepts of us-gaap in Object.entries order: distinct keys
ConceptSeqs ==
    {s \in UNION {[1..n -> ConceptsTried] : n \in 0..MaxConcepts} :
        \A i, j \in 1..Len(s) : i # j => s[i] # s[j]}

\* per concept, the length of its USD list, or -1 when units has no USD key
NoUsd == -1
UsdLen(k) == IF k = NoUsd THEN 0 ELSE k

RECURSIVE TotalObs(_, _)
TotalObs(shape, n) == IF n = 0 THEN 0 ELSE TotalObs(shape, n - 1) + UsdLen(shape[n])

Shapes(n) ==
    {sh \in [1..n -> NoUsd..MaxTotalObs] : TotalObs(sh, n) <= MaxTotalObs}

\* the us-gaap object with concepts names, USD lists of lengths shape, filled from flat
GaapEntries(names, shape, flat) ==
    [i \in 1..Len(names) |->
        [concept |-> names[i],
         units |-> IF shape[i] = NoUsd
                   THEN [shares |-> <<>>]
                   ELSE [USD |-> SubSeq(flat, TotalObs(shape, i - 1) + 1,
                                        TotalObs(shape, i))]]]

CompanyFacts(gaap) ==
    [cik |-> 320193, entityName |-> "Apple Inc.", facts |-> ("us-gaap" :> gaap)]

\* a company without any us-gaap facts
NoGaapFacts == [cik |-> 320193, entityName |-> "Apple Inc.", facts |-> [dei |-> <<>>]]

Ticker == <<"a", "a", "p", "l">>
SicCode == Str(<<"3", "5", "7", "1">>)

----------------------------------------------------------------------------
(* The edge function: one request that reaches normalizeFinancials *)

InitNormalizer ==
    /\ pc = "request"
    /\ fiscalYearStart = FirstYear
    /\ fiscalYearEnd \in FirstYear..(FirstYear + MaxSpan)
    /\ \/ facts = NoGaapFacts
       \/ \E names \in ConceptSeqs : \E shape \in Shapes(Len(names)) :
            \E flat \in [1..TotalObs(shape, Len(names)) ->
                            Observations(fiscalYearStart, fiscalYearEnd)] :
               facts = CompanyFacts(GaapEntries(names, shape, flat))
    /\ normalizedData = NotRun
    /\ data = NotRun
    /\ analysis = NotRun
    /\ calls = <<>>
    /\ statuses = <<>>
    /\ IdleBackend

Normalize ==
    /\ pc = "request"
    /\ normalizedData' =
         normalizeFinancials(facts, Ticker, SicCode, fiscalYearStart, fiscalYearEnd)
    /\ pc' = "normalized"
    /\ UNCHANGED <<facts, fiscalYearStart, fiscalYearEnd, data, analysis,
                   calls, statuses>>
    /\ UNCHANGED backendVars

NextNormalizer == Normalize

SpecNormalizer == InitNormalizer /\ [][NextNormalizer]_vars

----------------------------------------------------------------------------
(* Properties of the normalizer *)

Entries == UsGaap(facts)
YearsRequested == fiscalYearStart..fiscalYearEnd
FinancialFields == FiscalYearData \ {"year"}

\* the annual filter, stated on the request
AnnualInRange(v) ==
    v.form = "10-K" /\ v.fy \in YearsRequested

\* <<concept, observation>> for every USD observation, in the order of the raw input
RECURSIVE Flatten(_, _)
Flatten(entries, i) ==
    IF i > Len(entries) THEN <<>>
    ELSE LET usd == UsdValues(entries[i].units)
         IN  [j \in 1..Len(usd) |-> <<entries[i].concept, usd[j]>>]
             \o Flatten(entries, i + 1)

\* positions of flat holding an annual in-range observation of year y for field f
Matches(flat, f, y) ==
    {k \in 1..Len(flat) :
        /\ flat[k][1] \in DOMAIN METRIC_MAPPING
        /\ METRIC_MAPPING[flat[k][1]] = f
        /\ AnnualInRange(flat[k][2])
        /\ flat[k][2].fy = y}

\* the value of the first match, or null without any
FirstMatch(flat, f, y) ==
    LET m == Matches(flat, f, y)
    IN  IF m = {} THEN Null
        ELSE Num(flat[CHOOSE k \in m : \A l \in m : k <= l][2].val)

\* C1: the fiscal-year sequence has end - start + 1 records, of the years start,
\* start + 1, ..., end in this order, and the record of a year without any annual
\* in-range observation has every financial field null.
C1_DenseAscendingYears ==
    pc = "normalized" =>
        LET fy == normalizedData.fiscalYears
            flat == Flatten(Entries, 1)
            yearsSeen == {flat[k][2].fy : k \in {l \in 1..Len(flat) : AnnualInRange(flat[l][2])}}
        IN  /\ Len(fy) = fiscalYearEnd - fiscalYearStart + 1
            /\ \A i \in 1..Len(fy) : fy[i].year = fiscalYearStart + i - 1
            /\ \A i \in 1..Len(fy) :
                  fy[i].year \notin yearsSeen
                  => \A f \in DOMAIN fy[i] \ {"year"} : fy[i][f] = Null

\* C1 witness: a two-year range where the first year got a revenue and the second
\* year, without any eligible observation, is all null.
C1_Witness ==
    /\ pc = "normalized"
    /\ fiscalYearEnd = fiscalYearStart + 1
    /\ Len(normalizedData.fiscalYears) = 2
    /\ normalizedData.fiscalYears[1].revenue = Num(7)
    /\ \A f \in DOMAIN normalizedData.fiscalYears[2] \ {"year"} :
          normalizedData.fiscalYears[2][f] = Null
    /\ Len(Flatten(Entries, 1)) = 2

\* the raw fact set without observation j of entry i
WithoutObservation(f, i, j) ==
    LET entries == UsGaap(f)
        usd == UsdValues(entries[i].units)
        rest == SubSeq(usd, 1, j - 1) \o SubSeq(usd, j + 1, Len(usd))
    IN  [f EXCEPT !.facts =
            ("us-gaap" :> [entries EXCEPT ![i].units = [USD |-> rest]])]

Renormalized(f) ==
    normalizeFinancials(f, Ticker, SicCode, fiscalYearStart, fiscalYearEnd)

\* C2 as claimed: the output computed with a non-annual or out-of-range observation
\* removed equals the output computed with it present (fiscal years and rawMetrics).
C2_IneligibleNeverInfluences ==
    pc = "normalized" =>
        \A i \in 1..Len(Entries) :
            \A j \in 1..Len(UsdValues(Entries[i].units)) :
                ~AnnualInRange(UsdValues(Entries[i].units)[j])
                => Renormalized(WithoutObservation(facts, i, j)) = normalizedData

\* what does hold around C2: the fiscal-year records never depend on such an
\* observation, and rawMetrics depends on it only when it is the whole USD list
C2_FiscalYearsUnaffected ==
    pc = "normalized" =>
        \A i \in 1..Len(Entries) :
            \A j \in 1..Len(UsdValues(Entries[i].units)) :
                ~AnnualInRange(UsdValues(Entries[i].units)[j])
                => LET without == Renormalized(WithoutObservation(facts, i, j))
                   IN  /\ without.fiscalYears = normalizedData.fiscalYears
                       /\ Len(UsdValues(Entries[i].units)) > 1
                            => without.rawMetrics = normalizedData.rawMetrics

\* the entries of the raw input, visited in the order of the mapping table
RECURSIVE InTableOrder(_, _)
InTableOrder(entries, k) ==
    IF k > Len(METRIC_MAPPING_KEYS) THEN <<>>
    ELSE SelectSeq(entries, LAMBDA e : e.concept = METRIC_MAPPING_KEYS[k])
         \o InTableOrder(entries, k + 1)

\* C3 as claimed: each field of each year holds the first annual in-range
\* observation met when the concepts are visited in METRIC_MAPPING order.
C3_FirstInTableOrder ==
    pc = "normalized" =>
        \A i \in 1..Len(normalizedData.fiscalYears) :
            LET rec == normalizedData.fiscalYears[i]
            IN  \A f \in DOMAIN rec \ {"year"} :
                    rec[f] = FirstMatch(Flatten(InTableOrder(Entries, 1), 1), f, rec.year)

\* C3 amended: each field of each year holds the first annual in-range observation
\* met when the concepts are visited in the order of the raw us-gaap object and,
\* within a concept, in list order; later matches never overwrite it.
C3_FirstInInputOrder ==
    pc = "normalized" =>
        \A i \in 1..Len(normalizedData.fiscalYears) :
            LET rec == normalizedData.fiscalYears[i]
                flat == Flatten(Entries, 1)
            IN  \A f \in DOMAIN rec \ {"year"} : rec[f] = FirstMatch(flat, f, rec.year)

\* C3 witness: two concepts mapped to revenue both carry an annual observation of
\* the first year, with different values, and the record holds the first one.
C3_Witness ==
    /\ pc = "normalized"
    /\ Len(Entries) = 2
    /\ Entries[1].concept = "SalesRevenueNet"
    /\ Entries[2].concept = "Revenues"
    /\ UsdValues(Entries[1].units) = <<Observation(7, fiscalYearStart, "10-K")>>
    /\ UsdValues(Entries[2].units) = <<Observation(0, fiscalYearStart, "10-K")>>
    /\ normalizedData.fiscalYears[1].revenue = Num(7)

\* C4 as claimed: every record has all thirteen named fields, each null or the
\* value of an annual in-range observation of that year.
C4_AllThirteenFields ==
    pc = "normalized" =>
        \A i \in 1..Len(normalizedData.fiscalYears) :
            LET rec == normalizedData.fiscalYears[i]
            IN  /\ DOMAIN rec = FiscalYearData
                /\ \A f \in FinancialFields :
                      \/ rec[f] = Null
                      \/ \E k \in Matches(Flatten(Entries, 1), f, rec.year) :
                            rec[f] = Num(Flatten(Entries, 1)[k][2].val)

\* the concepts of the raw input, and those with a non-empty USD list
ConceptsPresent == {Entries[i].concept : i \in 1..Len(Entries)}
ConceptsWithUsd ==
    {Entries[i].concept : i \in {k \in 1..Len(Entries) : Len(UsdValues(Entries[k].units)) > 0}}

UsdOf(c) ==
    UsdValues(Entries[CHOOSE i \in 1..Len(Entries) : Entries[i].concept = c].units)

\* list is the annual in-range observations of usd, in order, cut to five fields
IsFilteredCopy(list, usd) ==
    LET kept == SelectSeq(usd, AnnualInRange)
    IN  /\ Len(list) = Len(kept)
        /\ \A k \in 1..Len(list) :
              /\ DOMAIN list[k] = {"end", "val", "fy", "form", "filed"}
              /\ \A a \in DOMAIN list[k] : list[k][a] = kept[k][a]

\* the raw input with its unmapped concepts deleted
MappedOnly(f) ==
    [f EXCEPT !.facts =
        ("us-gaap" :> SelectSeq(UsGaap(f), LAMBDA e : e.concept \in DOMAIN METRIC_MAPPING))]

----------------------------------------------------------------------------
(* Inputs of the analyzer *)

Absent == [t |-> "absent"]   \* the record has no such key

RevenueTried == {Null, Num(0), Num(100)}
NetIncomeTried == {Null, Num(0), Num(10), Num(-10)}
TotalAssetsTried == {Null, Num(0), Num(100)}
TotalLiabilitiesTried == {Null, Num(0), Num(20), Num(100), Num(150)}
StockholdersEquityTried == {Null, Num(50)}
CurrentAssetsTried == {Null, Num(0), Num(50)}
CurrentLiabilitiesTried == {Null, Num(0), Num(100)}
LongTermDebtTried == {Null, Num(0), Num(40)}
CashTried == {Absent, Null, Num(0), Num(10)}
PreviousRevenueTried == {Null, Num(200)}
SicCodesTried == {Null, Str(<<"7", "3", "7", "2">>)}
YearCountsTried == {1, MaxYears}   \* besides no record at all

\* a fiscal-year record of the shape the edge function returns, plus
\* cashAndEquivalents when the client-side type's extra key is present
YearRecord(year, rev, ni, ta, tl, se, ca, cl, ltd, cash) ==
    LET rec == [year |-> year, revenue |-> rev, netIncome |-> ni, totalAssets |-> ta,
                totalLiabilities |-> tl, stockholdersEquity |-> se,
                operatingCashFlow |-> Null, ebitda |-> Null, grossProfit |-> Null,
                operatingIncome |-> Null, longTermDebt |-> ltd, currentAssets |-> ca,
                currentLiabilities |-> cl]
    IN  IF cash = Absent THEN rec ELSE ("cashAndEquivalents" :> cash) @@ rec

EmptyYear(year) ==
    YearRecord(year, Null, Null, Null, Null, Null, Null, Null, Null, Absent)

\* n records in ascending year order: the last is latest, the one before it
\* carries the previous revenue, older ones are empty
FiscalYearsOf(n, latest, prevRevenue) ==
    [i \in 1..n |->
        IF i = n THEN latest
        ELSE IF i = n - 1
             THEN [EmptyYear(FirstYear + i - 1) EXCEPT !.revenue = prevRevenue]
             ELSE EmptyYear(FirstYear + i - 1)]

Financials(sic, fiscalYears) ==
    [cik |-> PadStart10(Digits(320193)), entityName |-> "Apple Inc.",
     ticker |-> <<"A", "A", "P", "L">>, sicCode |-> sic,
     fiscalYears |-> fiscalYears, rawMetrics |-> <<>>]

----------------------------------------------------------------------------
(* The credit memo tab: one evaluation of useCreditAnalysis(data) *)

InitAnalyzer ==
    /\ pc = "loaded"
    /\ facts = NotRun
    /\ fiscalYearStart = FirstYear
    /\ fiscalYearEnd = FirstYear
    /\ normalizedData = NotRun
    /\ analysis = NotRun
    /\ calls = <<>>
    /\ statuses = <<>>
    /\ IdleBackend
    /\ \/ data = Null
       \/ \E sic \in SicCodesTried : data = Financials(sic, <<>>)
       \/ \E sic \in SicCodesTried, n \in YearCountsTried,
             rev \in RevenueTried, ni \in NetIncomeTried, ta \in TotalAssetsTried,
             tl \in TotalLiabilitiesTried, se \in StockholdersEquityTried,
             ca \in CurrentAssetsTried, cl \in CurrentLiabilitiesTried,
             ltd \in LongTermDebtTried, cash \in CashTried,
             prev \in PreviousRevenueTried :
               data = Financials(sic,
                        FiscalYearsOf(n, YearRecord(FirstYear + n - 1, rev, ni, ta, tl,
                                                    se, ca, cl, ltd, cash), prev))

Analyze ==
    /\ pc = "loaded"
    /\ analysis' = useCreditAnalysis(data)
    /\ pc' = "analyzed"
    /\ UNCHANGED <<facts, fiscalYearStart, fiscalYearEnd, normalizedData, data,
                   calls, statuses>>
    /\ UNCHANGED backendVars

NextAnalyzer == Analyze

SpecAnalyzer == InitAnalyzer /\ [][NextAnalyzer]_vars

----------------------------------------------------------------------------
(* Properties of the analyzer *)

HasYears == data # Null /\ Len(data.fiscalYears) > 0

\* the record of the greatest year
LatestRecord ==
    data.fiscalYears[CHOOSE i \in 1..Len(data.fiscalYears) :
                        \A j \in 1..Len(data.fiscalYears) :
                            data.fiscalYears[j].year <= data.fiscalYears[i].year]

\* null, or no such key
Missing(f) == f \notin DOMAIN LatestRecord \/ LatestRecord[f] = Null
Present(f) == ~Missing(f)
Value(f) == LatestRecord[f].n
IsZero(f) == Present(f) /\ Value(f) = 0

RatioNamed(name) ==
    analysis.ratios[CHOOSE i \in 1..Len(analysis.ratios) : analysis.ratios[i].name = name].value

\* C6: no analysis (null) exactly when the input is null or has no fiscal-year
\* record; with at least one record, whatever is null or zero, an analysis is
\* returned and no TypeError is raised.
C6_NullExactlyWithoutYears ==
    pc = "analyzed" =>
        /\ analysis = Null <=> ~HasYears
        /\ HasYears => analysis.t = "analysis"

\* C6 witness: one record with null and zero fields, analysed without a throw.
C6_Witness ==
    /\ pc = "analyzed"
    /\ HasYears
    /\ Len(data.fiscalYears) = 1
    /\ Missing("currentAssets") /\ IsZero("currentLiabilities") /\ IsZero("revenue")
    /\ Missing("netIncome") /\ Missing("totalAssets")
    /\ analysis.t = "analysis"
    /\ Len(analysis.ratios) = 6

AllFieldsMissing == \A f \in FinancialFields : Missing(f)

\* C7 as claimed: an all-null latest record gives no analysis.
C7_AllNullLatestGivesNull ==
    (pc = "analyzed" /\ HasYears /\ AllFieldsMissing) => analysis = Null

\* C7 amended: an all-null latest record still gives an analysis: six null ratios
\* of status warning, the single flag incomplete-data (medium), four peer
\* comparisons without percentile, score 55 and category fair.
C7_AllNullLatestGivesAnalysis ==
    (pc = "analyzed" /\ HasYears /\ AllFieldsMissing) =>
        /\ analysis.t = "analysis"
        /\ Len(analysis.ratios) = 6
        /\ \A i \in 1..6 : /\ analysis.ratios[i].value = Null
                            /\ analysis.ratios[i].status = "warning"
        /\ Len(analysis.riskFlags) = 1
        /\ analysis.riskFlags[1].id = "incomplete-data"
        /\ analysis.riskFlags[1].severity = "medium"
        /\ Len(analysis.peerComparisons) = 4
        /\ \A i \in 1..4 : /\ analysis.peerComparisons[i].percentile = Null
                            /\ analysis.peerComparisons[i].status = "at"
        /\ RatEq(analysis.overallScore, Num(55))
        /\ analysis.scoreCategory = "fair"

\* C7 witness: two records, the latest all null, the previous with a revenue.
C7_Witness ==
    /\ pc = "analyzed"
    /\ HasYears
    /\ Len(data.fiscalYears) = 2
    /\ AllFieldsMissing
    /\ data.fiscalYears[1].revenue = Num(200)
    /\ analysis.t = "analysis"

\* C8: a ratio is null when a field of its formula is null, and when its
\* denominator (currentLiabilities, revenue, totalAssets, equity) is 0; no ratio
\* value is a quotient by 0.
C8_NullInputsAndZeroDenominators ==
    (pc = "analyzed" /\ HasYears /\ analysis.t = "analysis") =>
        LET equityZero == Present("totalAssets") /\ Present("totalLiabilities")
                          /\ Value("totalAssets") = Value("totalLiabilities")
            equityMissing == Missing("totalAssets") \/ Missing("totalLiabilities")
        IN  /\ (Missing("currentAssets") \/ Missing("currentLiabilities")
                 \/ IsZero("currentLiabilities"))
                => RatioNamed("Current Ratio") = Null
            /\ (Missing("longTermDebt") \/ equityMissing \/ equityZero)
                => RatioNamed("Debt-to-Equity") = Null
            /\ (Missing("netIncome") \/ Missing("revenue") \/ IsZero("revenue"))
                => RatioNamed("Net Profit Margin") = Null
            /\ (Missing("netIncome") \/ Missing("totalAssets") \/ IsZero("totalAssets"))
                => RatioNamed("Return on Assets") = Null
            /\ (Missing("netIncome") \/ equityMissing \/ equityZero)
                => RatioNamed("Return on Equity") = Null
            /\ (Missing("currentAssets") \/ Missing("currentLiabilities")
                 \/ Missing("cashAndEquivalents") \/ IsZero("currentLiabilities"))
                => RatioNamed("Quick Ratio") = Null
            /\ \A i \in 1..Len(analysis.ratios) :
                  analysis.ratios[i].value # Null => analysis.ratios[i].value.d # 0

\* C8 witness: currentLiabilities is 0 with currentAssets and cash present, and
\* equity is 0 with longTermDebt and netIncome present: four ratios are null.
C8_Witness ==
    /\ pc = "analyzed"
    /\ HasYears
    /\ analysis.t = "analysis"
    /\ Present("currentAssets") /\ Value("currentAssets") = 50
    /\ Present("cashAndEquivalents") /\ Value("cashAndEquivalents") = 10
    /\ IsZero("currentLiabilities")
    /\ Present("totalAssets") /\ Present("totalLiabilities")
    /\ Value("totalAssets") = 100 /\ Value("totalLiabilities") = 100
    /\ Present("longTermDebt") /\ Value("longTermDebt") = 40
    /\ Present("netIncome") /\ Value("netIncome") = 10
    /\ RatioNamed("Current Ratio") = Null
    /\ RatioNamed("Quick Ratio") = Null
    /\ RatioNamed("Debt-to-Equity") = Null
    /\ RatioNamed("Return on Equity") = Null
    /\ RatioNamed("Return on Assets") # Null

\* r is the quotient num / den
IsQuotient(r, num, den) == r # Null /\ r.d # 0 /\ r.n * den = num * r.d

\* C9 as claimed: with every field of its formula present and a non-zero
\* denominator, a ratio is non-null and equals its formula, for a numerator of 0
\* and for a negative equity too (equity taken as totalAssets - totalLiabilities
\* where stockholdersEquity is null).
C9_RatioEqualsFormula ==
    (pc = "analyzed" /\ HasYears /\ analysis.t = "analysis") =>
        LET equityKnown == Present("totalAssets") /\ Present("totalLiabilities")
                           /\ Missing("stockholdersEquity")
                           /\ Value("totalAssets") # Value("totalLiabilities")
            equity == Value("totalAssets") - Value("totalLiabilities")
        IN  /\ (Present("currentAssets") /\ Present("currentLiabilities")
                 /\ ~IsZero("currentLiabilities"))
                => IsQuotient(RatioNamed("Current Ratio"),
                              Value("currentAssets"), Value("currentLiabilities"))
            /\ (Present("netIncome") /\ Present("revenue") /\ ~IsZero("revenue"))
                => IsQuotient(RatioNamed("Net Profit Margin"),
                              Value("netIncome"), Value("revenue"))
            /\ (Present("netIncome") /\ Present("totalAssets") /\ ~IsZero("totalAssets"))
                => IsQuotient(RatioNamed("Return on Assets"),
                              Value("netIncome"), Value("totalAssets"))
            /\ (Present("netIncome") /\ equityKnown)
                => IsQuotient(RatioNamed("Return on Equity"), Value("netIncome"), equity)
            /\ (Present("longTermDebt") /\ equityKnown)
                => IsQuotient(RatioNamed("Debt-to-Equity"), Value("longTermDebt"), equity)
            /\ (Present("currentAssets") /\ Present("currentLiabilities")
                 /\ Present("cashAndEquivalents") /\ ~IsZero("currentLiabilities"))
                => IsQuotient(RatioNamed("Quick Ratio"),
                              Value("cashAndEquivalents") + Value("currentAssets"),
                              2 * Value("currentLiabilities"))

\* C10 as claimed: with stockholdersEquity present (and positive), debt-to-equity is
\* longTermDebt / stockholdersEquity and return on equity is netIncome /
\* stockholdersEquity, for a non-zero longTermDebt and netIncome.
C10_EquityIsStockholdersEquity ==
    (pc = "analyzed" /\ HasYears /\ analysis.t = "analysis"
       /\ Present("stockholdersEquity") /\ Value("stockholdersEquity") > 0) =>
        /\ (Present("longTermDebt") /\ ~IsZero("longTermDebt"))
            => IsQuotient(RatioNamed("Debt-to-Equity"),
                          Value("longTermDebt"), Value("stockholdersEquity"))
        /\ (Present("netIncome") /\ ~IsZero("netIncome"))
            => IsQuotient(RatioNamed("Return on Equity"),
                          Value("netIncome"), Value("stockholdersEquity"))

----------------------------------------------------------------------------
(* calculateRatioStatus on its own: successive calls that differ in the value *)

MaxCalls == 2   \* calls in one log

\* benchmarks of the table and of the fixed ratios (0.5, 1.0)
BenchmarksTried == {Rat(5, 10), Rat(10, 10)}

\* the { good, warning } pairs passed at the call sites
ThresholdsTried ==
    {[good |-> Rat(9, 10), warning |-> Rat(6, 10)],
     [good |-> Rat(10, 10), warning |-> Rat(15, 10)],
     [good |-> Rat(8, 10), warning |-> Rat(5, 10)]}

\* null, and numbers below, on and above every benchmark x multiplier
ValuesTried ==
    {Null, Num(-1), Num(0), Rat(1, 4), Rat(3, 10), Rat(2, 5), Rat(9, 20), Rat(1, 2),
     Rat(3, 5), Rat(3, 4), Rat(4, 5), Rat(9, 10), Num(1), Rat(3, 2), Num(2)}

StatusCall(value, benchmark, higherIsBetter, thresholds) ==
    [value |-> value, benchmark |-> benchmark, higherIsBetter |-> higherIsBetter,
     thresholds |-> thresholds]

InitStatus ==
    /\ pc = "ratios"
    /\ facts = NotRun
    /\ fiscalYearStart = FirstYear
    /\ fiscalYearEnd = FirstYear
    /\ normalizedData = NotRun
    /\ data = NotRun
    /\ analysis = NotRun
    /\ \E n \in 1..MaxCalls, benchmark \in BenchmarksTried, higherIsBetter \in BOOLEAN,
          thresholds \in ThresholdsTried :
         \E values \in [1..n -> ValuesTried] :
            calls = [i \in 1..n |->
                       StatusCall(values[i], benchmark, higherIsBetter, thresholds)]
    /\ statuses = <<>>
    /\ IdleBackend

\* the next call of the log is made and its result recorded
Classify ==
    /\ pc = "ratios"
    /\ Len(statuses) < Len(calls)
    /\ LET c == calls[Len(statuses) + 1]
       IN  statuses' = Append(statuses,
                              calculateRatioStatus(c.value, c.benchmark, c.higherIsBetter,
                                                   c.thresholds.good, c.thresholds.warning))
    /\ UNCHANGED <<pc, facts, fiscalYearStart, fiscalYearEnd, normalizedData, data,
                   analysis, calls>>
    /\ UNCHANGED backendVars

NextStatus == Classify

SpecStatus == InitStatus /\ [][NextStatus]_vars

----------------------------------------------------------------------------
(* Properties of calculateRatioStatus *)

\* value >= benchmark x multiplier, by cross-multiplication of the fractions
AtLeastProduct(value, benchmark, multiplier) ==
    value.n * benchmark.d * multiplier.d >= benchmark.n * multiplier.n * value.d

AtMostProduct(value, benchmark, multiplier) ==
    value.n * benchmark.d * multiplier.d <= benchmark.n * multiplier.n * value.d

\* C11: a null value is classified warning; a higher-is-better value is good iff
\* value >= benchmark x good, else warning iff value >= benchmark x warning, else
\* critical; a lower-is-better value is good iff value <= benchmark x good, else
\* warning iff value <= benchmark x warning, else critical.
C11_StatusByThresholds ==
    \A i \in 1..Len(statuses) :
        LET c == calls[i]
            v == c.value
            b == c.benchmark
            g == c.thresholds.good
            w == c.thresholds.warning
        IN  /\ statuses[i] \in {"good", "warning", "critical"}
            /\ v = Null => statuses[i] = "warning"
            /\ (v # Null /\ c.higherIsBetter) =>
                  /\ statuses[i] = "good" <=> AtLeastProduct(v, b, g)
                  /\ statuses[i] = "warning" <=>
                        (~AtLeastProduct(v, b, g) /\ AtLeastProduct(v, b, w))
                  /\ statuses[i] = "critical" <=>
                        (~AtLeastProduct(v, b, g) /\ ~AtLeastProduct(v, b, w))
            /\ (v # Null /\ ~c.higherIsBetter) =>
                  /\ statuses[i] = "good" <=> AtMostProduct(v, b, g)
                  /\ statuses[i] = "warning" <=>
                        (~AtMostProduct(v, b, g) /\ AtMostProduct(v, b, w))
                  /\ statuses[i] = "critical" <=>
                        (~AtMostProduct(v, b, g) /\ ~AtMostProduct(v, b, w))

\* C11 witness: one log holds a null value classified warning and a value lying
\* exactly on benchmark x good (0.5 x 0.9 = 0.45) classified good.
C11_Witness ==
    /\ Len(statuses) = 2
    /\ calls[1].value = Null /\ statuses[1] = "warning"
    /\ calls[2].higherIsBetter
    /\ calls[2].benchmark = Rat(5, 10) /\ calls[2].thresholds.good = Rat(9, 10)
    /\ calls[2].value = Rat(9, 20) /\ statuses[2] = "good"

\* good < warning < critical
Rank(status) ==
    CASE status = "good" -> 0 [] status = "warning" -> 1 [] status = "critical" -> 2

\* the polarity and thresholds of the debt-to-equity call
IsDebtToEquityCall(c) ==
    /\ ~c.higherIsBetter
    /\ c.thresholds = [good |-> Rat(10, 10), warning |-> Rat(15, 10)]

\* C20: with the benchmark, polarity and thresholds of the debt-to-equity call
\* held fixed, the status is monotone in the value: for v1 <= v2 the status of
\* v2 is never better than that of v1; in particular no critical value has a
\* greater value that is good.
C20_DebtToEquityStatusMonotone ==
    \A i, j \in 1..Len(statuses) :
        (/\ IsDebtToEquityCall(calls[i])
         /\ calls[j].benchmark = calls[i].benchmark
         /\ calls[j].higherIsBetter = calls[i].higherIsBetter
         /\ calls[j].thresholds = calls[i].thresholds
         /\ calls[i].value # Null /\ calls[j].value # Null
         /\ calls[i].value.n * calls[j].value.d <= calls[j].value.n * calls[i].value.d)
        => /\ Rank(statuses[j]) >= Rank(statuses[i])
           /\ ~(statuses[i] = "critical" /\ statuses[j] = "good")

\* C20 witness: against the benchmark 0.5, debt-to-equity 0.5 is good and the
\* greater 0.9 is critical.
C20_Witness ==
    /\ Len(statuses) = 2
    /\ IsDebtToEquityCall(calls[1]) /\ IsDebtToEquityCall(calls[2])
    /\ calls[1].benchmark = Rat(5, 10) /\ calls[2].benchmark = Rat(5, 10)
    /\ calls[1].value = Rat(1, 2) /\ statuses[1] = "good"
    /\ calls[2].value = Rat(9, 10) /\ statuses[2] = "critical"

----------------------------------------------------------------------------
(* The credit memo tab on records around the thresholds of the flag rules:  *)
(* four families of inputs, each varying the fields of one group of rules   *)
(* around a record whose six ratios are good and which raises no flag       *)

\* liquidity: current ratio 0.49, 0.5, 0.99, 1, 2; cash 0 %, 1 %, 2 %, 50 % of assets
LiquidityCurrentAssetsTried ==
    {Null, Num(0), Num(49), Num(50), Num(99), Num(100), Num(200)}
LiquidityCurrentLiabilitiesTried == {Null, Num(0), Num(100)}
LiquidityCashTried == {Absent, Null, Num(0), Num(1), Num(2), Num(50)}
LiquidityTotalAssetsTried == {Null, Num(0), Num(100)}

\* leverage: with equity 80, debt-to-equity 0.125, 1.5, 1.5125, 2.5, 2.5125, 5
LeverageLongTermDebtTried ==
    {Null, Num(0), Num(10), Num(120), Num(121), Num(200), Num(201), Num(400)}
LeverageTotalAssetsTried == {Null, Num(100)}
LeverageTotalLiabilitiesTried == {Null, Num(0), Num(20), Num(150)}

\* profitability and growth: margins -10 %, 0, 3 %, 4 %, 20 % of a revenue of 100;
\* revenue down 0 %, 10 %, 11 %, 20 %, 21 % against a previous 100
ProfitRevenueTried ==
    {Null, Num(0), Num(100), Num(90), Num(89), Num(80), Num(79)}
ProfitPreviousRevenueTried == {Null, Num(0), Num(100)}
ProfitNetIncomeTried == {Null, Num(0), Num(20), Num(-10), Num(3), Num(4)}

\* distress: every group of rules at once
StressRevenueTried == {Null, Num(70), Num(100)}
StressNetIncomeTried == {Num(-10), Num(20)}
StressTotalLiabilitiesTried == {Null, Num(20), Num(150)}
StressCurrentAssetsTried == {Num(40), Num(200)}
StressLongTermDebtTried == {Num(10), Num(400)}
StressCashTried == {Num(1), Num(50)}

\* NormalizedFinancials of n records whose latest is the given one
Scenario(sic, n, prev, rev, ni, ta, tl, se, ca, cl, ltd, cash) ==
    Financials(sic, FiscalYearsOf(n, YearRecord(FirstYear + n - 1, rev, ni, ta, tl, se,
                                                ca, cl, ltd, cash), prev))

InitScenarios ==
    /\ pc = "loaded"
    /\ facts = NotRun
    /\ fiscalYearStart = FirstYear
    /\ fiscalYearEnd = FirstYear
    /\ normalizedData = NotRun
    /\ analysis = NotRun
    /\ calls = <<>>
    /\ statuses = <<>>
    /\ IdleBackend
    /\ \/ \E ca \in LiquidityCurrentAssetsTried, cl \in LiquidityCurrentLiabilitiesTried,
             cash \in LiquidityCashTried, ta \in LiquidityTotalAssetsTried :
               data = Scenario(Null, 1, Null, Num(100), Num(20), ta, Num(20), Null,
                               ca, cl, Num(10), cash)
       \/ \E sic \in SicCodesTried, ltd \in LeverageLongTermDebtTried,
             ta \in LeverageTotalAssetsTried, tl \in LeverageTotalLiabilitiesTried,
             se \in StockholdersEquityTried :
               data = Scenario(sic, 1, Null, Num(100), Num(20), ta, tl, se,
                               Num(200), Num(100), ltd, Num(50))
       \/ \E sic \in SicCodesTried, n \in YearCountsTried,
             rev \in ProfitRevenueTried, prev \in ProfitPreviousRevenueTried,
             ni \in ProfitNetIncomeTried :
               data = Scenario(sic, n, prev, rev, ni, Num(100), Num(20), Null,
                               Num(200), Num(100), Num(10), Num(50))
       \/ \E sic \in SicCodesTried, rev \in StressRevenueTried,
             ni \in StressNetIncomeTried, tl \in StressTotalLiabilitiesTried,
             se \in StockholdersEquityTried, ca \in StressCurrentAssetsTried,
             ltd \in StressLongTermDebtTried, cash \in StressCashTried :
               data = Scenario(sic, MaxYears, Num(100), rev, ni, Num(100), tl, se,
                               ca, Num(100), ltd, cash)

SpecScenarios == InitScenarios /\ [][NextAnalyzer]_vars

----------------------------------------------------------------------------
(* Properties of the score *)

Analyzed == pc = "analyzed" /\ HasYears /\ analysis.t = "analysis"

PointsOf(status) ==
    CASE status = "good" -> 100 [] status = "warning" -> 60 [] status = "critical" -> 20

PenaltyOf(severity) ==
    CASE severity = "critical" -> 15 [] severity = "high" -> 10
      [] severity = "medium" -> 5 [] severity = "low" -> 2

\* points of the first n ratios, penalties of the first n flags
RECURSIVE PointsUpTo(_)
PointsUpTo(n) ==
    IF n = 0 THEN 0 ELSE PointsUpTo(n - 1) + PointsOf(analysis.ratios[n].status)

RECURSIVE PenaltyUpTo(_)
PenaltyUpTo(n) ==
    IF n = 0 THEN 0 ELSE PenaltyUpTo(n - 1) + PenaltyOf(analysis.riskFlags[n].severity)

TotalPoints == PointsUpTo(Len(analysis.ratios))
TotalPenalty == PenaltyUpTo(Len(analysis.riskFlags))

\* score = q as fractions
ScoreIs(num, den) == analysis.overallScore.n * den = num * analysis.overallScore.d

\* C12: the score is the mean of the six ratio points (100, 60, 20) minus the
\* summed flag penalties (15, 10, 5, 2), the penalty subtracted once, clamped to
\* [0, 100]; it always lies in [0, 100].
C12_ScoreIsClampedMeanMinusPenalty ==
    Analyzed =>
        LET raw6 == TotalPoints - 6 * TotalPenalty   \* six times (mean - penalty)
        IN  /\ Len(analysis.ratios) = 6
            /\ analysis.overallScore.t = "num" /\ analysis.overallScore.d > 0
            /\ raw6 < 0 => ScoreIs(0, 1)
            /\ raw6 > 600 => ScoreIs(100, 1)
            /\ (0 <= raw6 /\ raw6 <= 600) => ScoreIs(raw6, 6)
            /\ 0 <= analysis.overallScore.n
            /\ analysis.overallScore.n <= 100 * analysis.overallScore.d

\* C12 witness: six critical ratios (mean 20) and five flags worth 70: the
\* difference -50 is floored to 0.
C12_Witness ==
    /\ Analyzed
    /\ TotalPoints = 120
    /\ Len(analysis.riskFlags) = 5
    /\ TotalPenalty = 70
    /\ ScoreIs(0, 1)

\* score >= k and score < k for a whole number k
ScoreAtLeast(k) == analysis.overallScore.n >= k * analysis.overallScore.d
ScoreBelow(k) == ~ScoreAtLeast(k)

AllRatiosGood == \A i \in 1..Len(analysis.ratios) : analysis.ratios[i].status = "good"

\* C13: the category is excellent iff score >= 80, good iff 65 <= score < 80, fair
\* iff 50 <= score < 65, poor iff 35 <= score < 50, critical iff score < 35; six
\* good ratios without any flag score exactly 100, category excellent.
C13_CategoryByThresholds ==
    Analyzed =>
        /\ analysis.scoreCategory = "excellent" <=> ScoreAtLeast(80)
        /\ analysis.scoreCategory = "good" <=> (ScoreAtLeast(65) /\ ScoreBelow(80))
        /\ analysis.scoreCategory = "fair" <=> (ScoreAtLeast(50) /\ ScoreBelow(65))
        /\ analysis.scoreCategory = "poor" <=> (ScoreAtLeast(35) /\ ScoreBelow(50))
        /\ analysis.scoreCategory = "critical" <=> ScoreBelow(35)
        /\ (Len(analysis.ratios) = 6 /\ AllRatiosGood /\ Len(analysis.riskFlags) = 0)
              => (ScoreIs(100, 1) /\ analysis.scoreCategory = "excellent")

\* C13 witness: six good ratios and no flag, scored 100 and excellent.
C13_Witness ==
    /\ Analyzed
    /\ Len(analysis.ratios) = 6
    /\ AllRatiosGood
    /\ Len(analysis.riskFlags) = 0
    /\ ScoreIs(100, 1)
    /\ analysis.scoreCategory = "excellent"

----------------------------------------------------------------------------
(* Properties of the risk flags *)

FlagIds == {analysis.riskFlags[i].id : i \in 1..Len(analysis.riskFlags)}

FlagNamed(id) ==
    analysis.riskFlags[CHOOSE i \in 1..Len(analysis.riskFlags) :
                          analysis.riskFlags[i].id = id]

\* the record of the second greatest year, when there are two
HasPrevious == HasYears /\ Len(data.fiscalYears) >= 2

PreviousRecord ==
    data.fiscalYears[CHOOSE i \in 1..Len(data.fiscalYears) :
                        /\ data.fiscalYears[i].year < LatestRecord.year
                        /\ \A j \in 1..Len(data.fiscalYears) :
                              data.fiscalYears[j].year < LatestRecord.year
                                => data.fiscalYears[j].year <= data.fiscalYears[i].year]

\* the debt-to-equity benchmark of the company's industry
LeverageBenchmark == getBenchmarks(data.sicCode).debtToEquity
MarginBenchmark == getBenchmarks(data.sicCode).netMargin

\* equity as the ratio formulas describe it: stockholdersEquity, or total assets
\* minus total liabilities when stockholdersEquity is not available
EquityKnown ==
    Present("stockholdersEquity") \/ (Present("totalAssets") /\ Present("totalLiabilities"))

StatedEquity ==
    IF Present("stockholdersEquity") THEN Value("stockholdersEquity")
    ELSE Value("totalAssets") - Value("totalLiabilities")

\* the condition of each rule, on the fields of the latest record
LowCurrentRatio ==
    /\ Present("currentAssets") /\ Present("currentLiabilities")
    /\ Value("currentLiabilities") > 0
    /\ Value("currentAssets") < Value("currentLiabilities")

HighLeverage ==
    /\ Present("longTermDebt") /\ EquityKnown /\ StatedEquity > 0
    /\ Value("longTermDebt") * 10 * LeverageBenchmark.d
         > 15 * LeverageBenchmark.n * StatedEquity

LowMargin ==
    /\ Present("netIncome") /\ Present("revenue") /\ Value("revenue") > 0
    /\ Value("netIncome") * 10 * MarginBenchmark.d
         < 5 * MarginBenchmark.n * Value("revenue")

RevenueDecline ==
    /\ HasPrevious
    /\ Present("revenue") /\ PreviousRecord.revenue # Null
    /\ PreviousRecord.revenue.n > 0
    /\ (Value("revenue") - PreviousRecord.revenue.n) * 10 < 0 - PreviousRecord.revenue.n

LowCash ==
    /\ Present("cashAndEquivalents") /\ Present("totalAssets")
    /\ Value("totalAssets") > 0
    /\ Value("cashAndEquivalents") * 100 < 2 * Value("totalAssets")

IncompleteData ==
    Missing("revenue") \/ Missing("totalAssets") \/ Missing("totalLiabilities")

ProfitabilityIds == {"negative-margin", "low-margin"}

AllSixRulesFire ==
    /\ {"low-current-ratio", "high-leverage", "revenue-decline", "low-cash",
        "incomplete-data"} \subseteq FlagIds
    /\ FlagIds \cap ProfitabilityIds # {}

\* C14 as claimed: the six rules are evaluated independently and all may fire in
\* one run: a latest record that meets the condition of every rule gets a flag
\* from every rule.
C14_AllSixRulesFireTogether ==
    (Analyzed /\ LowCurrentRatio /\ HighLeverage /\ LowMargin /\ RevenueDecline
       /\ LowCash /\ IncompleteData) => AllSixRulesFire

\* No run has a flag from every rule: high-leverage needs totalAssets and
\* totalLiabilities, the margin and revenue rules need revenue, and then
\* incomplete-data does not fire.
C14_NeverAllSixRules == Analyzed => ~AllSixRulesFire

\* how many flags carry one of the ids
CountOf(ids) == Cardinality({i \in 1..Len(analysis.riskFlags) : analysis.riskFlags[i].id \in ids})

\* r < num / den for a ratio value r and den > 0
RatioBelow(r, num, den) == r.n * den < num * r.d

\* C15: a low-current-ratio flag (category Liquidity) is produced exactly when the
\* current ratio of the analysis is non-null and < 1.0; its severity is critical
\* iff the ratio is < 0.5 and high otherwise; currentAssets 50 with
\* currentLiabilities 100 (ratio exactly 0.5) gives high.
C15_LowCurrentRatioFlag ==
    Analyzed =>
        LET cr == RatioNamed("Current Ratio")
            fires == cr # Null /\ RatioBelow(cr, 1, 1)
        IN  /\ CountOf({"low-current-ratio"}) = (IF fires THEN 1 ELSE 0)
            /\ fires =>
                  /\ FlagNamed("low-current-ratio").category = "Liquidity"
                  /\ FlagNamed("low-current-ratio").severity =
                        (IF RatioBelow(cr, 1, 2) THEN "critical" ELSE "high")
            /\ (Present("currentAssets") /\ Present("currentLiabilities")
                  /\ Value("currentAssets") = 50 /\ Value("currentLiabilities") = 100)
                 => /\ "low-current-ratio" \in FlagIds
                    /\ FlagNamed("low-current-ratio").severity = "high"

\* C15 witness: currentAssets 50, currentLiabilities 100: ratio exactly 0.5, the
\* flag is raised with severity high.
C15_Witness ==
    /\ Analyzed
    /\ Present("currentAssets") /\ Value("currentAssets") = 50
    /\ Present("currentLiabilities") /\ Value("currentLiabilities") = 100
    /\ RatEq(RatioNamed("Current Ratio"), Rat(1, 2))
    /\ "low-current-ratio" \in FlagIds
    /\ FlagNamed("low-current-ratio").severity = "high"

\* C16 as claimed: revenue-decline fires only when the latest and the previous
\* record both have a revenue; with both present (0 included, the previous one
\* positive) it fires exactly when revenue fell by more than 10 %, critical iff
\* by more than 20 % and high otherwise; with one record it never fires.
C16_RevenueDeclineFlag ==
    Analyzed =>
        LET bothPresent == HasPrevious /\ Present("revenue")
                           /\ PreviousRecord.revenue # Null
            prev == PreviousRecord.revenue.n
            fell10 == (Value("revenue") - prev) * 10 < 0 - prev
            fell20 == (Value("revenue") - prev) * 10 < 0 - 2 * prev
        IN  /\ "revenue-decline" \in FlagIds => bothPresent
            /\ Len(data.fiscalYears) = 1 => "revenue-decline" \notin FlagIds
            /\ (bothPresent /\ prev > 0) =>
                  /\ CountOf({"revenue-decline"}) = (IF fell10 THEN 1 ELSE 0)
                  /\ fell10 => FlagNamed("revenue-decline").severity =
                                  (IF fell20 THEN "critical" ELSE "high")

RatioRecordNamed(name) ==
    analysis.ratios[CHOOSE i \in 1..Len(analysis.ratios) : analysis.ratios[i].name = name]

FlagsOfCategory(category) ==
    {i \in 1..Len(analysis.riskFlags) : analysis.riskFlags[i].category = category}

\* C17: with the net margin the analysis reports, a profitability flag of
\* severity critical is produced when net margin < 0, otherwise one of severity
\* medium when net margin < benchmark net margin x 0.5, otherwise none; an
\* analysis has at most one profitability flag.
C17_ProfitabilityFlag ==
    Analyzed =>
        LET nm == RatioNamed("Net Profit Margin")
            b == RatioRecordNamed("Net Profit Margin").benchmark
            negative == nm # Null /\ nm.n < 0
            low == nm # Null /\ ~negative /\ nm.n * 2 * b.d < b.n * nm.d
            flags == FlagsOfCategory("Profitability")
        IN  /\ Cardinality(flags) <= 1
            /\ negative => \E i \in flags : analysis.riskFlags[i].severity = "critical"
            /\ low => \E i \in flags : analysis.riskFlags[i].severity = "medium"
            /\ (~negative /\ ~low) => flags = {}
            /\ CountOf(ProfitabilityIds) = Cardinality(flags)

\* C17 witness: net income 3 on revenue 100: the margin 3 % is not negative and
\* lies below half the default benchmark (4 %), one flag of severity medium.
C17_Witness ==
    /\ Analyzed
    /\ Present("netIncome") /\ Value("netIncome") = 3
    /\ Present("revenue") /\ Value("revenue") = 100
    /\ data.sicCode = Null
    /\ Cardinality(FlagsOfCategory("Profitability")) = 1
    /\ "low-margin" \in FlagIds
    /\ FlagNamed("low-margin").severity = "medium"

\* C18 as claimed: with cashAndEquivalents and totalAssets both non-null (cash
\* may be 0) and totalAssets > 0, a low-cash flag (Liquidity, high) is produced
\* exactly when cash / totalAssets < 2 %.
C18_LowCashFlag ==
    (Analyzed /\ Present("cashAndEquivalents") /\ Present("totalAssets")
       /\ Value("totalAssets") > 0) =>
        LET low == Value("cashAndEquivalents") * 100 < 2 * Value("totalAssets")
        IN  /\ CountOf({"low-cash"}) = (IF low THEN 1 ELSE 0)
            /\ low => /\ FlagNamed("low-cash").severity = "high"
                       /\ FlagNamed("low-cash").category = "Liquidity"

\* C19 as claimed: an incomplete-data flag (medium) is produced exactly when one
\* of revenue, totalAssets, totalLiabilities is null in the latest record; with
\* all three non-null, whatever their values, it is never produced.
C19_IncompleteDataFlag ==
    Analyzed =>
        /\ CountOf({"incomplete-data"}) = (IF IncompleteData THEN 1 ELSE 0)
        /\ IncompleteData => FlagNamed("incomplete-data").severity = "medium"

----------------------------------------------------------------------------
(* The credit memo tab for companies of every listed industry and of none *)

\* null, '', one character, an unlisted prefix, a bare prefix, and a four-digit
\* code under each prefix of the table
BenchmarkSicCodesTried ==
    {Null} \cup
    {Str(c) : c \in {<<>>, <<"7">>, <<"9", "9">>, <<"9", "9", "7", "3">>, <<"7", "3">>,
                     <<"7", "3", "7", "2">>, <<"3", "5", "7", "1">>,
                     <<"3", "6", "7", "4">>, <<"2", "8", "3", "4">>,
                     <<"6", "0", "2", "1">>, <<"6", "2", "1", "1">>,
                     <<"2", "0", "1", "1">>, <<"4", "9", "1", "1">>}}

InitBenchmarks ==
    /\ pc = "loaded"
    /\ facts = NotRun
    /\ fiscalYearStart = FirstYear
    /\ fiscalYearEnd = FirstYear
    /\ normalizedData = NotRun
    /\ analysis = NotRun
    /\ calls = <<>>
    /\ statuses = <<>>
    /\ IdleBackend
    /\ \E sic \in BenchmarkSicCodesTried, ni \in ProfitNetIncomeTried,
          ca \in StressCurrentAssetsTried :
            data = Scenario(sic, 1, Null, Num(100), ni, Num(100), Num(20), Null,
                            ca, Num(100), Num(10), Num(50))

SpecBenchmarks == InitBenchmarks /\ [][NextAnalyzer]_vars

----------------------------------------------------------------------------
(* Properties of the benchmarks and of the peer comparisons *)

\* the table entries in hundredths: current ratio, debt-to-equity, gross margin,
\* net margin
ListedPrefixes ==
    {<<"7", "3">>, <<"3", "5">>, <<"3", "6">>, <<"2", "8">>, <<"6", "0">>, <<"6", "2">>,
     <<"2", "0">>, <<"4", "9">>}

EntryInHundredths(prefix) ==
    CASE prefix = <<"7", "3">> -> <<180, 50, 45, 12>>
      [] prefix = <<"3", "5">> -> <<200, 60, 35, 8>>
      [] prefix = <<"3", "6">> -> <<220, 40, 42, 10>>
      [] prefix = <<"2", "8">> -> <<150, 70, 55, 15>>
      [] prefix = <<"6", "0">> -> <<120, 800, 70, 20>>
      [] prefix = <<"6", "2">> -> <<150, 300, 65, 18>>
      [] prefix = <<"2", "0">> -> <<140, 80, 28, 5>>
      [] prefix = <<"4", "9">> -> <<90, 120, 40, 10>>

DefaultInHundredths == <<150, 100, 35, 8>>

\* the number x is h hundredths
IsHundredths(x, h) == x.t = "num" /\ x.d # 0 /\ x.n * 100 = h * x.d

\* the entry the industry code of the input should select
ExpectedEntry ==
    LET code == data.sicCode
    IN  IF code # Null /\ Len(code.chars) >= 2
           /\ <<code.chars[1], code.chars[2]>> \in ListedPrefixes
        THEN EntryInHundredths(<<code.chars[1], code.chars[2]>>)
        ELSE DefaultInHundredths

\* C21: the benchmarks are the table entry of the code's first two characters
\* when that prefix is listed, and the default tuple (1.5, 1.0, 0.35, 0.08) for a
\* null, empty, one-character or unlisted code; the analysis reports them as the
\* benchmarks of the current ratio, debt-to-equity and net margin.
C21_BenchmarksByPrefix ==
    Analyzed =>
        LET b == getBenchmarks(data.sicCode)
            e == ExpectedEntry
        IN  /\ IsHundredths(b.currentRatio, e[1])
            /\ IsHundredths(b.debtToEquity, e[2])
            /\ IsHundredths(b.grossMargin, e[3])
            /\ IsHundredths(b.netMargin, e[4])
            /\ IsHundredths(RatioRecordNamed("Current Ratio").benchmark, e[1])
            /\ IsHundredths(RatioRecordNamed("Debt-to-Equity").benchmark, e[2])
            /\ IsHundredths(RatioRecordNamed("Net Profit Margin").benchmark, e[4])

\* C21 witness: the code '7372' is analysed against the entry '73'.
C21_Witness ==
    /\ Analyzed
    /\ data.sicCode = Str(<<"7", "3", "7", "2">>)
    /\ IsHundredths(RatioRecordNamed("Current Ratio").benchmark, 180)
    /\ IsHundredths(RatioRecordNamed("Debt-to-Equity").benchmark, 50)
    /\ IsHundredths(RatioRecordNamed("Net Profit Margin").benchmark, 12)

PeerMetrics == <<"Current Ratio", "Debt-to-Equity", "Net Margin", "Return on Assets">>

PeerNamed(metric) ==
    analysis.peerComparisons[CHOOSE i \in 1..Len(analysis.peerComparisons) :
                                analysis.peerComparisons[i].metric = metric]

\* 1 <= x <= 99
InOneTo99(x) == x.t = "num" /\ x.d > 0 /\ x.d <= x.n /\ x.n <= 99 * x.d

\* C22: an analysis has exactly four peer comparisons (current ratio,
\* debt-to-equity, net margin, return on assets); each percentile is null, and
\* then the company value is null, or lies in [1, 99], for negative company
\* values and for values many times the benchmark too.
C22_FourPeersWithClampedPercentile ==
    Analyzed =>
        /\ Len(analysis.peerComparisons) = 4
        /\ \A i \in 1..4 :
              LET peer == analysis.peerComparisons[i]
              IN  /\ peer.metric = PeerMetrics[i]
                  /\ peer.percentile = Null \/ InOneTo99(peer.percentile)
                  /\ peer.percentile = Null => peer.company = Null

\* C22 witness: net margin and return on assets several times their benchmarks
\* get percentile 99, a debt-to-equity of five times its benchmark gets 1.
C22_Witness ==
    /\ Analyzed
    /\ Len(analysis.peerComparisons) = 4
    /\ RatEq(PeerNamed("Return on Assets").company, Rat(20, 100))
    /\ RatEq(PeerNamed("Return on Assets").percentile, Num(99))
    /\ RatEq(PeerNamed("Net Margin").percentile, Num(99))
    /\ RatEq(PeerNamed("Debt-to-Equity").company, Num(5))
    /\ RatEq(PeerNamed("Debt-to-Equity").percentile, Num(1))

----------------------------------------------------------------------------
(* The edge function's cache: table run_data_cache, read before and written *)
(* after a live fetch.  The clock counts hours.                             *)

MaxRequests == 3
MaxNow == 36
ClockStep == 12
\* expiresAt.setHours(expiresAt.getHours() + 24)
CacheHours == 24

RunIds == {"run-1", "run-2"}

\* UNIQUE (run_id, source, data_type): the only unique constraint of the table
\* besides its generated primary key
run_data_cache_unique == {{"run_id", "source", "data_type"}}

\* rows of a table that agree with row on every column of cols
Conflicting(table, row, cols) == {r \in table : \A c \in cols : r[c] = row[c]}

\* INSERT ... ON CONFLICT (onConflict) DO UPDATE: the statement is rejected
\* (error 42P10) unless a unique constraint covers exactly the named columns;
\* the caller gets { error } and the table is as it was
upsert(table, unique, row, onConflict) ==
    IF onConflict \notin unique
    THEN table
    ELSE (table \ Conflicting(table, row, onConflict)) \cup {row}

\* .maybeSingle(): the row when exactly one matches, otherwise data is null
maybeSingle(rows) ==
    IF Cardinality(rows) = 1 THEN CHOOSE r \in rows : TRUE ELSE Null

CacheRow(runId, rawData, fetchedAt, expiresAt) ==
    [run_id |-> runId, data_type |-> "sec_financials", source |-> "sec_edgar",
     raw_data |-> rawData, fetched_at |-> fetchedAt, expires_at |-> expiresAt]

\* a response of the edge function, with the request it answers, the hour it was
\* handled at and the number of SEC requests made for it
Response(runId, forceRefresh, status, source, body, outbound) ==
    [runId |-> runId, forceRefresh |-> forceRefresh, at |-> now, status |-> status,
     source |-> source, data |-> body, outbound |-> outbound]

\* what the SEC serves at a given hour, normalized
LiveData(hour) == [asOf |-> hour]

InitCache ==
    /\ pc = "serving"
    /\ facts = NotRun
    /\ fiscalYearStart = FirstYear
    /\ fiscalYearEnd = FirstYear
    /\ normalizedData = NotRun
    /\ data = NotRun
    /\ analysis = NotRun
    /\ calls = <<>>
    /\ statuses = <<>>
    /\ IdleCache
    /\ IdleRetry
    /\ IdleWorkflow

\* one authorized, valid POST carrying a cik; secOk: the SEC answers both the
\* facts and the submissions request
HandleRequest(runId, forceRefresh, secOk) ==
    /\ pc = "serving"
    /\ Len(responses) < MaxRequests
    /\ LET cachedData ==
             IF forceRefresh THEN Null
             ELSE maybeSingle({r \in run_data_cache :
                                  r.run_id = runId /\ r.data_type = "sec_financials"})
           fresh == ~forceRefresh /\ cachedData # Null /\ cachedData.expires_at > now
       IN  IF fresh
           THEN /\ responses' = Append(responses,
                                  Response(runId, forceRefresh, 200, "cache",
                                           cachedData.raw_data, 0))
                /\ UNCHANGED <<run_data_cache, secRequests>>
           ELSE IF ~secOk
           THEN /\ responses' = Append(responses,
                                  Response(runId, forceRefresh, 500, "error", Null, 2))
                /\ secRequests' = secRequests + 2
                /\ UNCHANGED run_data_cache
           ELSE /\ run_data_cache' =
                     upsert(run_data_cache, run_data_cache_unique,
                            CacheRow(runId, LiveData(now), now, now + CacheHours),
                            {"run_id", "data_type"})
                /\ secRequests' = secRequests + 2
                /\ responses' = Append(responses,
                                  Response(runId, forceRefresh, 200, "live",
                                           LiveData(now), 2))
    /\ UNCHANGED <<now, analysisVars, retryVars, workflowVars>>

\* time passes between requests
Tick ==
    /\ pc = "serving"
    /\ now + ClockStep <= MaxNow
    /\ now' = now + ClockStep
    /\ UNCHANGED <<run_data_cache, responses, secRequests, analysisVars, retryVars,
                   workflowVars>>

NextCache ==
    \/ \E runId \in RunIds, forceRefresh \in BOOLEAN, secOk \in BOOLEAN :
          HandleRequest(runId, forceRefresh, secOk)
    \/ Tick

SpecCache == InitCache /\ [][NextCache]_vars

\* a successful live answer j whose cache entry is still valid when request k,
\* later, for the same run and without forceRefresh, is handled
StillCached(j, k) ==
    /\ j < k
    /\ responses[j].source = "live"
    /\ responses[k].runId = responses[j].runId
    /\ ~responses[k].forceRefresh
    /\ responses[k].at < responses[j].at + CacheHours

\* C23: after a successful live fetch for a runId, every later request for that
\* runId with forceRefresh = false within 24 hours is answered from the cache
\* with no SEC request; a request after the expiry or with forceRefresh = true
\* is answered live (or fails at the SEC), and a forced refresh replaces the
\* cached entry: the run's entry then expires 24 hours after it.
C23_CachedFor24Hours ==
    /\ \A k \in 1..Len(responses) :
          /\ (\E j \in 1..Len(responses) : StillCached(j, k)) =>
                responses[k].source = "cache" /\ responses[k].outbound = 0
          /\ responses[k].forceRefresh => responses[k].source # "cache"
          /\ (~\E j \in 1..Len(responses) : StillCached(j, k)) =>
                responses[k].source # "cache"
    /\ Len(responses) > 0 /\ responses[Len(responses)].source = "live"
         /\ responses[Len(responses)].at = now =>
            \E r \in run_data_cache :
               /\ r.run_id = responses[Len(responses)].runId
               /\ r.expires_at = now + CacheHours

----------------------------------------------------------------------------
(* fetchWithRetry(url, retries = 3, delay = 1000): one loop iteration a step *)

MaxRetries == 3

RetriesTried == 0..MaxRetries
DelaysTried == {500, 1000}

HttpResponse(status) == [t |-> "response", status |-> status]
NetworkError == [t |-> "error", message |-> "network"]
MaxRetriesExceeded == [t |-> "error", message |-> "Max retries exceeded"]

\* what one fetch call can end in: a response (429, ok, not ok) or a rejection
OutcomesTried == {HttpResponse(429), HttpResponse(200), HttpResponse(503), NetworkError}

Returned(response) == [t |-> "returned", response |-> response]
Threw(error) == [t |-> "threw", error |-> error]

waitTimeLinear(delay, k) == delay * (k + 1)

\* delay * Math.pow(2, i)
waitTime(delay, k) == delay * 2^k

InitRetry ==
    /\ pc = "fetching"
    /\ facts = NotRun
    /\ fiscalYearStart = FirstYear
    /\ fiscalYearEnd = FirstYear
    /\ normalizedData = NotRun
    /\ data = NotRun
    /\ analysis = NotRun
    /\ calls = <<>>
    /\ statuses = <<>>
    /\ IdleCache
    /\ IdleWorkflow
    /\ \E retries \in RetriesTried, delay \in DelaysTried :
          fetchCall = [retries |-> retries, delay |-> delay]
    /\ fetchOutcomes \in [1..MaxRetries -> OutcomesTried]
    /\ attempt = 0
    /\ waited = <<>>
    /\ returned = NotRun

\* one iteration of the for loop: the fetch, then return, wait and continue, or
\* rethrow
Iterate ==
    /\ pc = "fetching"
    /\ returned = NotRun
    /\ attempt < fetchCall.retries
    /\ LET outcome == fetchOutcomes[attempt + 1]
       IN  IF outcome.t = "response"
           THEN IF outcome.status = 429
                THEN /\ waited' = Append(waited, waitTime(fetchCall.delay, attempt))
                     /\ attempt' = attempt + 1
                     /\ UNCHANGED returned
                ELSE /\ returned' = Returned(outcome)
                     /\ UNCHANGED <<waited, attempt>>
           ELSE IF attempt = fetchCall.retries - 1
                THEN /\ returned' = Threw(outcome)
                     /\ UNCHANGED <<waited, attempt>>
                ELSE /\ waited' = Append(waited, waitTime(fetchCall.delay, attempt))
                     /\ attempt' = attempt + 1
                     /\ UNCHANGED returned
    /\ UNCHANGED <<fetchCall, fetchOutcomes, analysisVars, cacheVars, workflowVars>>

\* the loop condition fails: throw new Error('Max retries exceeded')
Exhaust ==
    /\ pc = "fetching"
    /\ returned = NotRun
    /\ attempt >= fetchCall.retries
    /\ returned' = Threw(MaxRetriesExceeded)
    /\ UNCHANGED <<fetchCall, fetchOutcomes, attempt, waited, analysisVars,
                   cacheVars, workflowVars>>

NextRetry == Iterate \/ Exhaust

SpecRetry == InitRetry /\ [][NextRetry]_vars

\* the event loop runs every continuation that is ready
SpecRetryFair == SpecRetry /\ WF_vars(NextRetry)

\* fetch calls made so far: one per completed iteration, and the one that ended
\* the call unless the loop ran out
FetchesMade ==
    IF returned # NotRun /\ returned # Threw(MaxRetriesExceeded)
    THEN attempt + 1 ELSE attempt

RetrySettled == returned # NotRun

RetrySafety ==
    /\ FetchesMade <= fetchCall.retries
    /\ Len(waited) = attempt
    /\ \A k \in 1..Len(waited) :
          /\ waited[k] = fetchCall.delay * 2^(k - 1)
          /\ fetchOutcomes[k] \in {HttpResponse(429), NetworkError}
    /\ \A k \in 1..FetchesMade :
          fetchOutcomes[k] = HttpResponse(429) => Len(waited) >= k
    /\ \A k \in 1..fetchCall.retries :
          (fetchOutcomes[k].t = "response" /\ fetchOutcomes[k].status # 429
           /\ (\A j \in 1..(k - 1) : fetchOutcomes[j] \in {HttpResponse(429), NetworkError})
           /\ RetrySettled)
          => returned = Returned(fetchOutcomes[k]) /\ FetchesMade = k
    /\ RetrySettled /\ returned.t = "threw" => FetchesMade = fetchCall.retries

\* C24: every 429 answer to attempt i (from 0) is followed by a wait of
\* delay * 2^i and, while attempts remain, another attempt; the first answer
\* that is not a 429 is returned at once; at most `retries` fetches are made;
\* and whatever the network does the call ends, returning a response or
\* throwing when the attempts are used up.
C24_RetryWithBackoffTerminates == []RetrySafety /\ <>RetrySettled

\* C24 witness: two 429 answers waited out for 1000 and 2000 ms, the third
\* attempt's answer returned.
C24_Witness ==
    /\ fetchCall = [retries |-> 3, delay |-> 1000]
    /\ waited = <<1000, 2000>>
    /\ returned = Returned(HttpResponse(200))

----------------------------------------------------------------------------
(* The database as the browser clients see it: tables runs, run_versions and *)
(* user_roles behind their row-level security policies.  auth.uid() is the   *)
(* uid argument.                                                             *)

MaxVersions == 3

TheRun == "run-1"
Owner == "owner"
Users == {Owner, "reviewer", "admin"}

\* has_role(_user_id, _role)
has_role(roles, uid, role) == \E r \in roles : r.user_id = uid /\ r.role = role

\* "Owners, reviewers, and admins can update runs": USING
RunsUpdatePolicy(roles, uid, row) ==
    \/ uid = row.created_by
    \/ uid = row.reviewer_id
    \/ has_role(roles, uid, "reviewer")
    \/ has_role(roles, uid, "admin")

\* "Users can create versions for own runs": WITH CHECK
VersionsInsertPolicy(uid, row) == uid = row.created_by

\* "Users can update unlocked versions they created": USING
VersionsUpdatePolicy(uid, row) == uid = row.created_by /\ row.is_locked = FALSE

\* UPDATE under row-level security.  The rows that match the filter and the
\* policy's USING are the targets; a policy without WITH CHECK applies USING to
\* the new rows as well, and one new row failing it aborts the statement
\* ("new row violates row-level security policy").
UpdateResult(table, targets, rowsAfter, failed) ==
    [error |-> failed,
     rows |-> IF failed THEN {} ELSE rowsAfter,
     table |-> IF failed THEN table ELSE (table \ targets) \cup rowsAfter]

\* update runs set status, reviewer_id where id = runId
UpdateRun(table, roles, uid, runId, status, reviewer) ==
    LET targets == {r \in table : r.id = runId /\ RunsUpdatePolicy(roles, uid, r)}
        after(r) == [r EXCEPT !.status = status, !.reviewer_id = reviewer]
    IN  UpdateResult(table, targets, {after(r) : r \in targets},
                     \E r \in targets : ~RunsUpdatePolicy(roles, uid, after(r)))

lockVersionsUsingOnly(table, uid, rows) ==
    LET targets == {r \in rows : VersionsUpdatePolicy(uid, r)}
    IN  UpdateResult(table, targets, {[r EXCEPT !.is_locked = TRUE] : r \in targets},
                     FALSE)

\* update run_versions set is_locked = true, over the rows the filter selects
lockVersions(table, uid, rows) ==
    LET targets == {r \in rows : VersionsUpdatePolicy(uid, r)}
        after(r) == [r EXCEPT !.is_locked = TRUE]
    IN  UpdateResult(table, targets, {after(r) : r \in targets},
                     \E r \in targets : ~VersionsUpdatePolicy(uid, after(r)))

insertVersionNoUnique(table, uid, row) ==
    IF ~VersionsInsertPolicy(uid, row)
    THEN [error |-> TRUE, table |-> table]
    ELSE [error |-> FALSE, table |-> table \cup {row}]

\* insert into run_versions: WITH CHECK of the insert policy, then
\* UNIQUE (run_id, version_number)
insertVersion(table, uid, row) ==
    IF \/ ~VersionsInsertPolicy(uid, row)
       \/ \E r \in table : r.run_id = row.run_id /\ r.version_number = row.version_number
    THEN [error |-> TRUE, table |-> table]
    ELSE [error |-> FALSE, table |-> table \cup {row}]

VersionsOf(table, runId) == {r \in table : r.run_id = runId}

\* order by version_number desc limit 1, maybeSingle: the row or null
LatestVersion(table, runId) ==
    LET rows == VersionsOf(table, runId)
    IN  IF rows = {} THEN Null
        ELSE CHOOSE r \in rows : \A q \in rows : q.version_number <= r.version_number

\* (latestVersion?.version_number || 0) + 1
newVersionNumber(latestVersion) ==
    (IF latestVersion = Null \/ latestVersion.version_number = 0
     THEN 0 ELSE latestVersion.version_number) + 1

VersionRow(runId, number, uid) ==
    [id |-> <<runId, number, uid>>, run_id |-> runId, version_number |-> number,
     created_by |-> uid, is_locked |-> FALSE]

RunRow(runId, status, owner, reviewer) ==
    [id |-> runId, status |-> status, created_by |-> owner, reviewer_id |-> reviewer]

TheRunRow == CHOOSE r \in runs : r.id = TheRun

\* getUserRole: the user's first role in enum order, 'analyst' without a row
RoleOf(uid) ==
    LET mine == {r.role : r \in {q \in user_roles : q.user_id = uid}}
    IN  IF mine = {} \/ "analyst" \in mine THEN "analyst"
        ELSE IF "reviewer" \in mine THEN "reviewer" ELSE "admin"

\* a null uuid column: equal to no auth.uid()
NoUser == "NULL"

----------------------------------------------------------------------------
(* The approval workflow and the version history of one run, worked on by   *)
(* one browser session per user.  A session holds the run status its page   *)
(* last fetched (view), the mutation it has in flight (op) and what that     *)
(* mutation has read so far; a step is the part of a mutation between two    *)
(* awaits.                                                                   *)

Session(view, op, read) == [view |-> view, op |-> op, read |-> read]

InitWorkflow ==
    /\ pc = "workflow"
    /\ facts = NotRun
    /\ fiscalYearStart = FirstYear
    /\ fiscalYearEnd = FirstYear
    /\ normalizedData = NotRun
    /\ data = NotRun
    /\ analysis = NotRun
    /\ calls = <<>>
    /\ statuses = <<>>
    /\ IdleCache
    /\ IdleRetry
    /\ runs = {RunRow(TheRun, "draft", Owner, NoUser)}
    /\ run_versions = {}
    /\ user_roles = {[user_id |-> Owner, role |-> "analyst"],
                     [user_id |-> "reviewer", role |-> "reviewer"],
                     [user_id |-> "admin", role |-> "admin"]}
    /\ statements = <<>>
    /\ sessions = [u \in Users |-> Session("draft", "idle", Null)]

Idle(u) == pc = "workflow" /\ sessions[u].op = "idle"

\* the session's queries are refetched
Refetch(u) ==
    /\ Idle(u)
    /\ sessions[u].view # TheRunRow.status
    /\ sessions' = [sessions EXCEPT ![u].view = TheRunRow.status]
    /\ UNCHANGED <<runs, run_versions, user_roles, statements, analysisVars,
                   cacheVars, retryVars>>

\* useSaveVersion, up to the insert: the Save Version button shows while the
\* page's run is a draft
SaveRead(u) ==
    /\ Idle(u)
    /\ sessions[u].view = "draft"
    /\ Cardinality(run_versions) < MaxVersions
    /\ sessions' = [sessions EXCEPT ![u].op = "save",
                                    ![u].read = LatestVersion(run_versions, TheRun)]
    /\ UNCHANGED <<runs, run_versions, user_roles, statements, analysisVars,
                   cacheVars, retryVars>>

\* useSaveVersion, the insert and its outcome
SaveInsert(u) ==
    /\ pc = "workflow"
    /\ sessions[u].op = "save"
    /\ run_versions' =
         insertVersion(run_versions, u,
                       VersionRow(TheRun, newVersionNumber(sessions[u].read), u)).table
    /\ sessions' = [sessions EXCEPT ![u].op = "idle", ![u].read = Null]
    /\ UNCHANGED <<runs, user_roles, statements, analysisVars, cacheVars, retryVars>>

\* useRestoreVersion, up to the insert: Restore shows on an unlocked version
\* that is not the newest while the page's run is a draft
RestoreRead(u) ==
    /\ Idle(u)
    /\ sessions[u].view = "draft"
    /\ Cardinality(run_versions) < MaxVersions
    /\ \E version \in VersionsOf(run_versions, TheRun) :
          /\ ~version.is_locked
          /\ version # LatestVersion(run_versions, TheRun)
    /\ sessions' = [sessions EXCEPT ![u].op = "restore",
                                    ![u].read = LatestVersion(run_versions, TheRun)]
    /\ UNCHANGED <<runs, run_versions, user_roles, statements, analysisVars,
                   cacheVars, retryVars>>

\* useRestoreVersion, the insert and its outcome
RestoreInsert(u) ==
    /\ pc = "workflow"
    /\ sessions[u].op = "restore"
    /\ run_versions' =
         insertVersion(run_versions, u,
                       VersionRow(TheRun, newVersionNumber(sessions[u].read), u)).table
    /\ sessions' = [sessions EXCEPT ![u].op = "idle", ![u].read = Null]
    /\ UNCHANGED <<runs, user_roles, statements, analysisVars, cacheVars, retryVars>>

\* useSubmitForReview, the read of the latest version: the button shows to the
\* owner while the page's run is a draft that has versions
SubmitRead(u) ==
    /\ Idle(u)
    /\ sessions[u].view = "draft"
    /\ u = TheRunRow.created_by
    /\ VersionsOf(run_versions, TheRun) # {}
    /\ sessions' = [sessions EXCEPT ![u].op = "submit-lock",
                                    ![u].read = LatestVersion(run_versions, TheRun)]
    /\ UNCHANGED <<runs, run_versions, user_roles, statements, analysisVars,
                   cacheVars, retryVars>>

\* useSubmitForReview, the lock of that version; its result is not looked at
SubmitLock(u) ==
    /\ pc = "workflow"
    /\ sessions[u].op = "submit-lock"
    /\ run_versions' =
         IF sessions[u].read = Null THEN run_versions
         ELSE lockVersions(run_versions, u,
                           {r \in run_versions : r.id = sessions[u].read.id}).table
    /\ sessions' = [sessions EXCEPT ![u].op = "submit-status", ![u].read = Null]
    /\ UNCHANGED <<runs, user_roles, statements, analysisVars, cacheVars, retryVars>>

\* useSubmitForReview, the status update
SubmitStatus(u) ==
    /\ pc = "workflow"
    /\ sessions[u].op = "submit-status"
    /\ runs' = UpdateRun(runs, user_roles, u, TheRun, "pending_review",
                         TheRunRow.reviewer_id).table
    /\ sessions' = [sessions EXCEPT ![u].op = "idle"]
    /\ UNCHANGED <<run_versions, user_roles, statements, analysisVars, cacheVars,
                   retryVars>>

\* useReviewDecision, the status update: Approve and Reject show to reviewers
\* and admins while the page's run is pending review
ReviewStatus(u, decision) ==
    /\ Idle(u)
    /\ sessions[u].view = "pending_review"
    /\ RoleOf(u) \in {"admin", "reviewer"}
    /\ LET result == UpdateRun(runs, user_roles, u, TheRun, decision, u)
       IN  /\ runs' = result.table
           /\ sessions' = [sessions EXCEPT ![u].op =
                             IF result.error \/ result.rows = {} \/ decision # "approved"
                             THEN "idle" ELSE "review-lock"]
    /\ UNCHANGED <<run_versions, user_roles, statements, analysisVars, cacheVars,
                   retryVars>>

\* useReviewDecision, the lock of all versions after an approval; its result is
\* not looked at
ReviewLock(u) ==
    /\ pc = "workflow"
    /\ sessions[u].op = "review-lock"
    /\ run_versions' =
         lockVersions(run_versions, u, VersionsOf(run_versions, TheRun)).table
    /\ sessions' = [sessions EXCEPT ![u].op = "approved"]
    /\ UNCHANGED <<runs, user_roles, statements, analysisVars, cacheVars, retryVars>>

\* the mutation's onSuccess has run: 'Run approved'
ReviewDone(u) ==
    /\ pc = "workflow"
    /\ sessions[u].op = "approved"
    /\ sessions' = [sessions EXCEPT ![u].op = "idle"]
    /\ UNCHANGED <<runs, run_versions, user_roles, statements, analysisVars,
                   cacheVars, retryVars>>

\* useResubmit: Return to Draft shows to the owner while the page's run is
\* rejected
Resubmit(u) ==
    /\ Idle(u)
    /\ sessions[u].view = "rejected"
    /\ u = TheRunRow.created_by
    /\ runs' = UpdateRun(runs, user_roles, u, TheRun, "draft", NoUser).table
    /\ UNCHANGED <<run_versions, sessions, user_roles, statements, analysisVars,
                   cacheVars, retryVars>>

NextWorkflow ==
    \E u \in Users :
       \/ Refetch(u)
       \/ SaveRead(u)
       \/ SaveInsert(u)
       \/ RestoreRead(u)
       \/ RestoreInsert(u)
       \/ SubmitRead(u)
       \/ SubmitLock(u)
       \/ SubmitStatus(u)
       \/ \E decision \in {"approved", "rejected"} : ReviewStatus(u, decision)
       \/ ReviewLock(u)
       \/ ReviewDone(u)
       \/ Resubmit(u)

SpecWorkflow == InitWorkflow /\ [][NextWorkflow]_vars

----------------------------------------------------------------------------
(* Properties of the approval workflow and the version history *)

RunVersions == VersionsOf(run_versions, TheRun)

\* C25: once an 'approved' review decision has completed successfully, every
\* version of the run is locked, whoever created the versions and whether a
\* reviewer or an admin approved.
C25_ApprovalLocksEveryVersion ==
    \A u \in Users :
       sessions[u].op = "approved" => \A version \in RunVersions : version.is_locked

StatusIn(table) == (CHOOSE r \in table : r.id = TheRun).status

WorkflowTransitions ==
    {<<"draft", "pending_review">>, <<"pending_review", "approved">>,
     <<"pending_review", "rejected">>, <<"rejected", "draft">>}

\* C26: the run's status only moves draft -> pending_review, pending_review ->
\* approved or rejected, rejected -> draft, and never leaves approved, whatever
\* the sessions' views and however their mutations interleave.
C26_StatusFollowsWorkflow ==
    [][StatusIn(runs') # StatusIn(runs) =>
          <<StatusIn(runs), StatusIn(runs')>> \in WorkflowTransitions]_vars

\* C27: whenever the run is pending review, its highest-numbered version is
\* locked.
C27_PendingReviewLatestLocked ==
    StatusIn(runs) = "pending_review" /\ RunVersions # {} =>
        LatestVersion(run_versions, TheRun).is_locked

VersionNumbers == {r.version_number : r \in RunVersions}

MaxVersionNumber ==
    IF RunVersions = {} THEN 0 ELSE LatestVersion(run_versions, TheRun).version_number

\* the version numbers are 1..n, each carried by one row
NumbersContiguous ==
    /\ VersionNumbers = 1..Cardinality(RunVersions)
    /\ \A r, q \in RunVersions : r.version_number = q.version_number => r = q

\* the step in which session u's save or restore gets the answer to its insert
InsertAnswered(u) ==
    sessions[u].op \in {"save", "restore"} /\ sessions'[u].op = "idle"

\* such a step adds one unlocked row numbered maximum + 1 and touches no other
\* row, or, when the number it computed from its read is taken, changes nothing
InsertsOneOrNothing(u) ==
    LET number == newVersionNumber(sessions[u].read)
    IN  IF number \in VersionNumbers
        THEN run_versions' = run_versions
        ELSE /\ number = MaxVersionNumber + 1
             /\ \E row \in run_versions' :
                   /\ run_versions' = run_versions \cup {row}
                   /\ row \notin run_versions
                   /\ row.version_number = number
                   /\ ~row.is_locked

\* C28: the version numbers of a run are unique and are 1, 2, ..., n; a save or
\* a restore adds one unlocked version numbered maximum + 1 (1 when there is
\* none) and changes no existing row; of two saves or restores that read the
\* same maximum, the second one's insert fails and leaves the table as it was.
C28_VersionNumbersContiguous ==
    /\ []NumbersContiguous
    /\ [][\A u \in Users : InsertAnswered(u) => InsertsOneOrNothing(u)]_vars

\* C28 witness: the owner's save read version 1 as the latest, and the
\* reviewer's save, which read the same, has since inserted version 2.
C28_Witness ==
    /\ sessions[Owner].op = "save"
    /\ sessions[Owner].read # Null
    /\ sessions[Owner].read.version_number = 1
    /\ sessions["reviewer"].op = "idle"
    /\ VersionRow(TheRun, 2, "reviewer") \in run_versions
    /\ VersionNumbers = {1, 2}

----------------------------------------------------------------------------
(* Table user_roles behind its policies: the statements any signed-in user   *)
(* can send through the API, and the admin page's role change.               *)

MaxStatements == 2

AppRoles == {"analyst", "reviewer", "admin"}

RoleRow(userId, role) == [user_id |-> userId, role |-> role]

\* "Users can view own roles": USING
RolesSelectPolicy(roles, uid, row) == uid = row.user_id \/ has_role(roles, uid, "admin")

\* "Admins can insert roles": WITH CHECK
RolesInsertPolicy(roles, uid, row) == has_role(roles, uid, "admin") \/ uid = row.user_id

\* "Admins can update roles", "Admins can delete roles": USING
RolesAdminPolicy(roles, uid, row) == has_role(roles, uid, "admin")

\* insert into user_roles (user_id, role): the policy's check, then
\* UNIQUE (user_id, role); the table afterwards
insertRole(roles, uid, row) ==
    IF ~RolesInsertPolicy(roles, uid, row) \/ row \in roles THEN roles
    ELSE roles \cup {row}

\* update user_roles set role = newRole where user_id = userId
updateRole(roles, uid, userId, newRole) ==
    LET targets == {r \in roles : r.user_id = userId /\ RolesAdminPolicy(roles, uid, r)}
        kept == roles \ targets
        after == {RoleRow(r.user_id, newRole) : r \in targets}
    IN  IF \/ \E r \in after : ~RolesAdminPolicy(roles, uid, r)
           \/ Cardinality(after) < Cardinality(targets)
           \/ after \cap kept # {}
        THEN roles
        ELSE kept \cup after

\* delete from user_roles where user_id = userId and role = role
deleteRole(roles, uid, row) ==
    roles \ {r \in roles : r = row /\ RolesAdminPolicy(roles, uid, r)}

\* updateRoleMutation: update when the select shows a row for the user,
\* otherwise insert
updateRoleMutation(roles, uid, userId, newRole) ==
    LET existing == maybeSingle({r \in roles : r.user_id = userId
                                               /\ RolesSelectPolicy(roles, uid, r)})
    IN  IF existing # Null THEN updateRole(roles, uid, userId, newRole)
        ELSE insertRole(roles, uid, RoleRow(userId, newRole))

Statement(uid, command, userId, role, after) ==
    [uid |-> uid, command |-> command, user_id |-> userId, role |-> role,
     admin |-> has_role(user_roles, uid, "admin"), changed |-> after # user_roles]

InitRoles ==
    /\ pc = "roles"
    /\ facts = NotRun
    /\ fiscalYearStart = FirstYear
    /\ fiscalYearEnd = FirstYear
    /\ normalizedData = NotRun
    /\ data = NotRun
    /\ analysis = NotRun
    /\ calls = <<>>
    /\ statuses = <<>>
    /\ IdleCache
    /\ IdleRetry
    /\ runs = {}
    /\ run_versions = {}
    /\ user_roles = {RoleRow(Owner, "analyst"), RoleRow("reviewer", "reviewer"),
                     RoleRow("admin", "admin")}
    /\ statements = <<>>
    /\ sessions = <<>>

Issue(uid, command, userId, role, after) ==
    /\ pc = "roles"
    /\ Len(statements) < MaxStatements
    /\ user_roles' = after
    /\ statements' = Append(statements, Statement(uid, command, userId, role, after))
    /\ UNCHANGED <<runs, run_versions, sessions, analysisVars, cacheVars, retryVars>>

InsertRole(uid, userId, role) ==
    Issue(uid, "insert", userId, role, insertRole(user_roles, uid, RoleRow(userId, role)))

UpdateRole(uid, userId, role) ==
    Issue(uid, "update", userId, role, updateRole(user_roles, uid, userId, role))

DeleteRole(uid, userId, role) ==
    Issue(uid, "delete", userId, role, deleteRole(user_roles, uid, RoleRow(userId, role)))

ChangeRole(uid, userId, role) ==
    Issue(uid, "updateRoleMutation", userId, role,
          updateRoleMutation(user_roles, uid, userId, role))

NextRoles ==
    \E uid \in Users, userId \in Users, role \in AppRoles :
       \/ InsertRole(uid, userId, role)
       \/ UpdateRole(uid, userId, role)
       \/ DeleteRole(uid, userId, role)
       \/ ChangeRole(uid, userId, role)

SpecRoles == InitRoles /\ [][NextRoles]_vars

\* C29: an insert, update or delete on user_roles issued by a user who does not
\* hold the admin role changes nothing, so no non-admin changes their own or
\* anyone else's roles.
C29_OnlyAdminsModifyRoles ==
    \A k \in 1..Len(statements) : ~statements[k].admin => ~statements[k].changed

----------------------------------------------------------------------------
(* The pipeline: the edge function normalizes the company facts, the run     *)
(* page receives the response body and the credit memo tab analyses it.      *)

\* the SEC's concept for cash and cash equivalents, which METRIC_MAPPING lacks
CashConcept == "CashAndCashEquivalentsAtCarryingValue"

PipelineConcepts ==
    <<"Revenues", "NetIncomeLoss", "Assets", "Liabilities", "AssetsCurrent",
      "LiabilitiesCurrent", "LongTermDebt", CashConcept>>

OptionalConcepts == {"Assets", CashConcept}

PipelineRevenueTried == {100, 0}
PipelineNetIncomeTried == {20, -5}
PipelineLiabilitiesTried == {20, 90}
PipelineCurrentAssetsTried == {200, 50}
PipelineLongTermDebtTried == {10, 400}

\* us-gaap with one annual observation of year fy for each concept present
PipelineGaap(values, present, fy) ==
    LET names == SelectSeq(PipelineConcepts, LAMBDA c : c \in present)
    IN  [k \in 1..Len(names) |->
            [concept |-> names[k],
             units |-> [USD |-> <<Observation(values[names[k]], fy, "10-K")>>]]]

InitPipeline ==
    /\ pc = "request"
    /\ fiscalYearStart = FirstYear
    /\ fiscalYearEnd \in FirstYear..(FirstYear + MaxSpan)
    /\ \E rev \in PipelineRevenueTried, ni \in PipelineNetIncomeTried,
          tl \in PipelineLiabilitiesTried, ca \in PipelineCurrentAssetsTried,
          ltd \in PipelineLongTermDebtTried, absent \in SUBSET OptionalConcepts :
         facts = CompanyFacts(PipelineGaap(
                    [c \in DOMAIN METRIC_MAPPING \cup {CashConcept} |->
                       CASE c = "Revenues" -> rev
                         [] c = "NetIncomeLoss" -> ni
                         [] c = "Assets" -> 100
                         [] c = "Liabilities" -> tl
                         [] c = "AssetsCurrent" -> ca
                         [] c = "LiabilitiesCurrent" -> 100
                         [] c = "LongTermDebt" -> ltd
                         [] c = CashConcept -> 50
                         [] OTHER -> 0],
                    {PipelineConcepts[k] : k \in 1..Len(PipelineConcepts)} \ absent,
                    fiscalYearEnd))
    /\ normalizedData = NotRun
    /\ data = NotRun
    /\ analysis = NotRun
    /\ calls = <<>>
    /\ statuses = <<>>
    /\ IdleBackend

\* JSON.stringify then JSON.parse of a number or null: NaN and Infinity
\* become null
JsonValue(x) == IF x.t = "num" /\ x.d = 0 THEN Null ELSE x

JsonYear(rec) == [k \in DOMAIN rec |-> IF k = "year" THEN rec[k] ELSE JsonValue(rec[k])]

\* the response body as the client parses it
JsonBody(d) ==
    [d EXCEPT !.fiscalYears = [k \in 1..Len(d.fiscalYears) |-> JsonYear(d.fiscalYears[k])]]

\* the run page hands the response's data to the credit memo tab
Load ==
    /\ pc = "normalized"
    /\ data' = JsonBody(normalizedData)
    /\ pc' = "loaded"
    /\ UNCHANGED <<facts, fiscalYearStart, fiscalYearEnd, normalizedData, analysis,
                   calls, statuses>>
    /\ UNCHANGED backendVars

NextPipeline == Normalize \/ Load \/ Analyze

SpecPipeline == InitPipeline /\ [][NextPipeline]_vars

IsNumber(x) == x.t = "num"

\* C30: in every analysis of a normalizer output, cashAndEquivalents of the
\* latest year is not a number, the Quick Ratio is null with status 'warning',
\* no 'low-cash' flag is raised, and the six ratio points sum to at most
\* 5 x 100 + 60, so that the score stays below 100.
C30_PipelineNeverHasCash ==
    (pc \in {"loaded", "analyzed"} =>
        \A k \in 1..Len(data.fiscalYears) :
           ~IsNumber(Field(data.fiscalYears[k], "cashAndEquivalents")))
    /\ (Analyzed =>
          /\ RatioRecordNamed("Quick Ratio").value = Null
          /\ RatioRecordNamed("Quick Ratio").status = "warning"
          /\ "low-cash" \notin FlagIds
          /\ TotalPoints <= 5 * 100 + 60
          /\ ScoreBelow(100))

\* C30 witness: the SEC reports cash of 50, the other five ratios are good and
\* the analysis still has no quick ratio: 560 points.
C30_Witness ==
    /\ Analyzed
    /\ \E k \in 1..Len(facts.facts["us-gaap"]) :
          facts.facts["us-gaap"][k].concept = CashConcept
    /\ RatioRecordNamed("Quick Ratio").value = Null
    /\ \A k \in 1..Len(analysis.ratios) :
          analysis.ratios[k].name # "Quick Ratio" => analysis.ratios[k].status = "good"
    /\ TotalPoints = 560

====
